---- MODULE Spec2Model ----
(***************************************************************************)
(* Model of the SQLite storage layer (class SQLiteStorage and its helper   *)
(* classes JsonUtils, TimestampUtils, DatabaseUtils).                       *)
(*                                                                         *)
(* A table is a sequence of rows; the row with id i sits at index i (ids   *)
(* are generated 1, 2, 3, ... and the operations modelled here never       *)
(* remove a row).  Tables that the code reaches through raw SQL (users,    *)
(* messages, bank_guarantees) keep their rows with the column names of the *)
(* table (snake_case); tables reached only through the query builder keep  *)
(* their rows as the query builder returns them (camelCase).               *)
(*                                                                         *)
(* Text is a sequence of one-character strings, so that the JSON codec is  *)
(* computed character by character.                                        *)
(***************************************************************************)
EXTENDS Integers, Sequences, FiniteSets, TLC

VARIABLES
    now,          \* the wall clock read by TimestampUtils
    users,        \* table users (raw columns)
    tenders,      \* table tenders
    bids,         \* table tender_bids
    reviews,      \* table reviews
    listings,     \* table marketplace_listings
    messages,     \* table messages (raw columns)
    options,      \* table delivery_options
    orders,       \* table delivery_orders
    estimates,    \* table estimates
    projects,     \* table design_projects
    crews,        \* table crews
    guarantees,   \* table bank_guarantees (raw columns)
    last,         \* the last call: its name, its arguments, what it returned
    calls,        \* the calls that await the store between two of their requests
    server        \* the server process: the startup steps done, the requests met

tables == <<users, tenders, bids, reviews, listings, messages, options, orders,
            estimates, projects, crews, guarantees>>
vars == <<now, users, tenders, bids, reviews, listings, messages, options, orders,
          estimates, projects, crews, guarantees, last, calls, server>>

----------------------------------------------------------------------------
(* Bounds of the model.                                                    *)

MaxClock == 2      \* the clock runs from 1 to MaxClock
MaxRows == 2       \* delivery options in the specification SpecDelivery
MaxTenders == 1    \* tenders in the specification SpecBids
MaxBids == 2       \* bids in the specification SpecBids
MaxUsers == 1      \* users in the specification SpecRating
MaxTotal == 1      \* rows in the whole store in the specification Spec
MaxReviews == 3    \* reviews in the specification SpecRating
MaxUrls == 2       \* elements of a design project's list column
MaxText == 3       \* characters of a stored text in the specification SpecCodec
MaxList == 2       \* strings of a list in the specification SpecCodec
MaxProjects == 1   \* design projects in the specification SpecProjects
MaxListed == 2     \* tenders in the specification SpecTenders
MaxViewed == 1     \* tenders, and listings, in the specification SpecViews
MaxViews == 2      \* views counted on one row in the specification SpecViews

----------------------------------------------------------------------------
(* Optional values: <<>> is an absent value, <<x>> a present one.          *)

None == <<>>
Some(x) == <<x>>

(* What a call hands back to its caller.                                   *)
Absent == [k |-> "absent"]             \* undefined
Raised == [k |-> "raised"]             \* a thrown error
Row(r) == [k |-> "row", v |-> r]       \* a record
Val(x) == [k |-> "val", v |-> x]       \* a number, a boolean
Rows(s) == [k |-> "rows", v |-> s]     \* a list of records

----------------------------------------------------------------------------
(* JavaScript values that JSON text denotes.                               *)

JStr(s) == [k |-> "str", v |-> s]
JArr(xs) == [k |-> "arr", v |-> xs]
JNum(n) == [k |-> "num", v |-> n]
JLit(w) == [k |-> "lit", v |-> w]      \* null, true, false

DQ == "\""
BS == "\\"
Digits == <<"0", "1", "2", "3", "4", "5", "6", "7", "8", "9">>
IsDigit(c) == \E i \in 1..Len(Digits) : Digits[i] = c
DigitValue(c) == (CHOOSE i \in 1..Len(Digits) : Digits[i] = c) - 1

RECURSIVE Concat(_)
Concat(ss) == IF ss = <<>> THEN <<>> ELSE Head(ss) \o Concat(Tail(ss))

Escape_raw(s) == s

(* JSON.stringify of a string: quotes, with quote and backslash escaped.   *)
RECURSIVE Escape(_)
Escape(s) ==
    IF s = <<>> THEN <<>>
    ELSE (IF Head(s) = DQ \/ Head(s) = BS THEN <<BS, Head(s)>> ELSE <<Head(s)>>)
         \o Escape(Tail(s))

RECURSIVE NumText(_)
NumText(n) == IF n < 10 THEN <<Digits[n + 1]>>
              ELSE NumText(n \div 10) \o <<Digits[(n % 10) + 1]>>

RECURSIVE JsonText(_)
JsonText(x) ==
    CASE x.k = "str" -> <<DQ>> \o Escape(x.v) \o <<DQ>>
      [] x.k = "num" -> NumText(x.v)
      [] x.k = "lit" -> x.v
      [] x.k = "arr" ->
            <<"[">>
            \o Concat([i \in 1..Len(x.v) |->
                         (IF i > 1 THEN <<",">> ELSE <<>>) \o JsonText(x.v[i])])
            \o <<"]">>

(* JsonUtils.stringify(data): JSON.stringify(data || []).                  *)
stringify(data) == IF data = None THEN JsonText(JArr(<<>>)) ELSE JsonText(data[1])

----------------------------------------------------------------------------
(* JSON.parse, for the JSON made of arrays, strings, unsigned integers and *)
(* the three literals.  A parse step answers [ok, val, next].              *)

Fail == [ok |-> FALSE]
Ok(v, n) == [ok |-> TRUE, val |-> v, next |-> n]

RECURSIVE SkipWs(_, _)
SkipWs(s, i) == IF i <= Len(s) /\ s[i] = " " THEN SkipWs(s, i + 1) ELSE i

StartsAt(s, i, w) ==
    /\ i + Len(w) - 1 <= Len(s)
    /\ \A j \in 1..Len(w) : s[i + j - 1] = w[j]

Literals == << <<"n", "u", "l", "l">>, <<"t", "r", "u", "e">>,
               <<"f", "a", "l", "s", "e">> >>

RECURSIVE ParseString(_, _, _)
ParseString(s, i, acc) ==
    IF i > Len(s) THEN Fail
    ELSE IF s[i] = DQ THEN Ok(JStr(acc), i + 1)
    ELSE IF s[i] = BS
         THEN IF i + 1 <= Len(s) /\ (s[i + 1] = DQ \/ s[i + 1] = BS)
              THEN ParseString(s, i + 2, Append(acc, s[i + 1]))
              ELSE Fail
    ELSE ParseString(s, i + 1, Append(acc, s[i]))

RECURSIVE ParseDigits(_, _, _)
ParseDigits(s, i, acc) ==
    IF i <= Len(s) /\ IsDigit(s[i])
    THEN ParseDigits(s, i + 1, acc * 10 + DigitValue(s[i]))
    ELSE Ok(JNum(acc), i)

RECURSIVE ParseValue(_, _)
RECURSIVE ParseElems(_, _, _)

ParseValue(s, i0) ==
    LET i == SkipWs(s, i0) IN
    IF i > Len(s) THEN Fail
    ELSE IF s[i] = "[" THEN
        LET j == SkipWs(s, i + 1) IN
        IF j <= Len(s) /\ s[j] = "]" THEN Ok(JArr(<<>>), j + 1)
        ELSE ParseElems(s, j, <<>>)
    ELSE IF s[i] = DQ THEN ParseString(s, i + 1, <<>>)
    ELSE IF s[i] = "0" THEN Ok(JNum(0), i + 1)
    ELSE IF IsDigit(s[i]) THEN ParseDigits(s, i, 0)
    ELSE IF \E k \in 1..Len(Literals) : StartsAt(s, i, Literals[k])
         THEN LET w == Literals[CHOOSE k \in 1..Len(Literals) :
                                    StartsAt(s, i, Literals[k])]
              IN Ok(JLit(w), i + Len(w))
    ELSE Fail

ParseElems(s, i, acc) ==
    LET r == ParseValue(s, i) IN
    IF ~r.ok THEN Fail
    ELSE LET j == SkipWs(s, r.next) IN
         IF j > Len(s) THEN Fail
         ELSE IF s[j] = "," THEN ParseElems(s, j + 1, Append(acc, r.val))
         ELSE IF s[j] = "]" THEN Ok(JArr(Append(acc, r.val)), j + 1)
         ELSE Fail

(* JSON.parse(text): a value, or a thrown SyntaxError.                     *)
JsonParse(s) ==
    LET r == ParseValue(s, 1) IN
    IF r.ok /\ SkipWs(s, r.next) > Len(s) THEN Some(r.val) ELSE None

RECURSIVE TrimRight(_)
TrimRight(s) == IF s # <<>> /\ s[Len(s)] = " " THEN TrimRight(SubSeq(s, 1, Len(s) - 1))
                ELSE s
trim(s) == LET i == SkipWs(s, 1) IN TrimRight(SubSeq(s, i, Len(s)))

includes(s, w) == \E i \in 1..(Len(s) + 1) : StartsAt(s, i, w)

isUrl_httpOnly(str) == includes(str, <<"h", "t", "t", "p">>)

(* JsonUtils.isUrl *)
isUrl(str) == includes(str, <<"h", "t", "t", "p">>) \/ includes(str, <<"w", "w", "w">>)

(* JsonUtils.parseArray on a stored text column: None is NULL, Some(text)  *)
(* a text.  The answer is the JavaScript value handed back.                *)
parseArray(json) ==
    IF json = None \/ json = Some(<<>>) THEN JArr(<<>>)
    ELSE LET trimmed == trim(json[1])
             caught == IF isUrl(json[1]) THEN JArr(<<JStr(json[1])>>) ELSE JArr(<<>>)
         IN IF trimmed # <<>> /\ trimmed[1] = "["
            THEN (IF JsonParse(trimmed) = None THEN caught ELSE JsonParse(trimmed)[1])
            ELSE IF isUrl(trimmed) THEN JArr(<<JStr(trimmed)>>)
            ELSE IF JsonParse(trimmed) = None THEN caught ELSE JsonParse(trimmed)[1]

----------------------------------------------------------------------------
(* TimestampUtils.now / nowDate: the clock's instant.                      *)
TimestampNow == now

----------------------------------------------------------------------------
(* The codec called on its own: the lists a caller encodes and the texts   *)
(* a column may hold.                                                      *)

RECURSIVE SeqsUpTo(_, _)
SeqsUpTo(S, n) ==
    IF n = 0 THEN {<<>>}
    ELSE LET shorter == SeqsUpTo(S, n - 1)
         IN shorter \cup {Append(q, x) : q \in shorter, x \in S}

ListStrings == {<<>>, <<"w">>, <<DQ>>, <<BS>>, <<"[", ",">>, <<" ", "w">>}
StringLists == {[i \in DOMAIN q |-> JStr(q[i])] : q \in SeqsUpTo(ListStrings, MaxList)}

TextChars == {"[", "]", DQ, "w", " "}
LongTexts ==
    { <<"5">>, <<"5", " ">>, <<"n", "u", "l", "l">>, <<"t", "r", "u", "e">>,
      <<"n", "o">>, <<DQ, "a", "b", DQ>>, <<"h", "t", "t", "p">>,
      <<" ", "h", "t", "t", "p">>, <<" ", "w", "w", "w", " ">>,
      <<"[", "w", "w", "w">>, <<"[", "5", ",", DQ, "w", DQ, "]">>,
      <<" ", "[", DQ, "w", "w", "w", DQ, "]">>, <<DQ, "w", "w", "w", DQ>>,
      <<"w", "w", "w", "[", "]">> }
StoredTexts == SeqsUpTo(TextChars, MaxText) \cup LongTexts

stringifyCall(data) ==
    /\ last' = [op |-> "stringify", data |-> data, ret |-> stringify(data)]
    /\ UNCHANGED <<server, calls, now, tables>>

parseArrayCall(json) ==
    /\ last' = [op |-> "parseArray", json |-> json, ret |-> parseArray(json)]
    /\ UNCHANGED <<server, calls, now, tables>>

(* The text that stringify handed back is stored and read back.            *)
decodeEncoded ==
    /\ last.op = "stringify"
    /\ last' = [op |-> "decode", data |-> last.data, json |-> Some(last.ret),
                ret |-> parseArray(Some(last.ret))]
    /\ UNCHANGED <<server, calls, now, tables>>

(* The instant a caller may put into a patch: one in the past.             *)
CallerStamps == {0}

Idle == [op |-> "idle"]

(* UPDATE ... SET data: the columns named in data take data's values.      *)
SetColumns(row, data) ==
    [c \in DOMAIN row |-> IF c \in DOMAIN data THEN data[c] ELSE row[c]]

Has(table, id) == id \in DOMAIN table

(* What the store answers to the re-read of a row just inserted.           *)
BuilderAnswers == {"row", "norow"}              \* INSERT ... RETURNING
RawAnswers == {"row", "noid", "norow"}          \* lastInsertRowid, then SELECT

----------------------------------------------------------------------------
(* Tenders.  A row: id, userId, category, location, title, description,    *)
(* status, personType, requiredProfessions (a text or NULL), images (JSON  *)
(* text), viewCount, createdAt, updatedAt.  The column requiredProfessions *)
(* is written as the caller gives it and holds a string or null.           *)

Url1 == <<"a">>
Url2 == <<"b", DQ>>
ImageLists == {JArr(<<>>), JArr(<<JStr(Url1)>>)}

TenderInputs ==
    [userId : {1}, category : {<<"a", "b">>}, location : {<<"a">>}, title : {<<"a">>},
     description : {<<"b">>}, status : {"open"}, personType : {<<"a">>},
     requiredProfessions : {JLit(Literals[1])},
     images : {None} \cup {Some(l) : l \in ImageLists}]

TenderPatches ==
    {[status |-> "closed"], [images |-> JArr(<<JStr(Url1)>>)]}
    \cup {[status |-> "closed", updatedAt |-> t] : t \in CallerStamps}

(* The record handed back for a tender row: images decoded.                *)
TenderRecord(row) == [row EXCEPT !.images = parseArray(Some(row.images))]

(* What a read of the row with this id hands back.                         *)
TenderById(id) == IF Has(tenders, id) THEN Row(TenderRecord(tenders[id])) ELSE Absent

getTender(id) ==
    /\ last' = [op |-> "getTender", id |-> id,
                old |-> IF Has(tenders, id) THEN Some(tenders[id]) ELSE None,
                ret |-> TenderById(id)]
    /\ UNCHANGED <<server, calls, now, tables>>

(* viewCount is not part of the insert: the row gets the column's default. *)
createTender(tender, answer) ==
    LET tenderData == [c \in DOMAIN tender \cup {"createdAt", "updatedAt"} |->
                         CASE c = "images" -> stringify(tender.images)
                           [] c \in {"createdAt", "updatedAt"} -> TimestampNow
                           [] OTHER -> tender[c]]
        row == [c \in DOMAIN tenderData \cup {"id", "viewCount"} |->
                  CASE c = "id" -> Len(tenders) + 1
                    [] c = "viewCount" -> 0
                    [] OTHER -> tenderData[c]]
    IN /\ tenders' = Append(tenders, row)
       /\ last' = [op |-> "createTender", answer |-> answer,
                   given |-> [f \in DOMAIN tender \ (IF tender.images = None
                                                      THEN {"images"} ELSE {}) |->
                                IF f = "images" THEN tender.images[1] ELSE tender[f]],
                   ret |-> IF answer = "row" THEN Row(TenderRecord(row)) ELSE Raised]
       /\ UNCHANGED <<server, calls, now, users, bids, reviews, listings,
                      messages, options, orders, estimates, projects, crews,
                      guarantees>>

updateTender(id, tenderData) ==
    LET data == IF "images" \in DOMAIN tenderData
                THEN [tenderData EXCEPT !.images = stringify(Some(tenderData.images))]
                ELSE tenderData
    IN /\ tenders' = IF Has(tenders, id)
                     THEN [tenders EXCEPT ![id] = SetColumns(@, data)]
                     ELSE tenders
       /\ last' = [op |-> "updateTender", id |-> id, patch |-> tenderData,
                   cols |-> DOMAIN tenderData,
                   old |-> IF Has(tenders, id) THEN Some(tenders[id]) ELSE None,
                   ret |-> IF Has(tenders, id) THEN Row(TenderRecord(tenders'[id]))
                           ELSE Absent]
       /\ UNCHANGED <<server, calls, now, users, bids, reviews, listings,
                      messages, options, orders, estimates, projects, crews,
                      guarantees>>

----------------------------------------------------------------------------
(* Lists of tenders.                                                       *)

(* The tenders that callers of the list operations have created.           *)
ListedTender ==
    [userId |-> 1, category |-> <<"a", "b">>, location |-> <<"a", "b">>,
     title |-> <<"a">>, description |-> <<"b">>, status |-> "open",
     personType |-> <<"a">>,
     requiredProfessions |-> JStr(JsonText(JArr(<<JStr(<<"a", "b">>)>>))),
     images |-> Some(JArr(<<JStr(Url1)>>))]

ListedTenderInputs ==
    { ListedTender,
      [ListedTender EXCEPT !.userId = 2, !.category = <<"a">>, !.location = <<"b">>,
                           !.title = <<"b">>, !.status = "closed",
                           !.personType = <<"b">>,
                           !.requiredProfessions =
                               JStr(JsonText(JArr(<<JStr(<<"a">>), JStr(<<"b">>)>>)))],
      [ListedTender EXCEPT !.category = <<"A", "b">>, !.location = <<"A">>,
                           !.requiredProfessions = JLit(Literals[1]),
                           !.images = None],
      [ListedTender EXCEPT !.requiredProfessions = JStr(JsonText(JStr(<<"a", "b">>)))],
      [ListedTender EXCEPT !.requiredProfessions = JStr(JsonText(JNum(5)))] }

TenderFilters ==
    { None, Some(<<>>),
      Some([category |-> <<"a">>]), Some([category |-> <<"a", "b">>]),
      Some([category |-> <<>>]),
      Some([location |-> <<"a">>]),
      Some([status |-> "open"]),
      Some([userId |-> 1]), Some([userId |-> 0]),
      Some([searchTerm |-> <<"b">>]),
      Some([personType |-> <<"a">>]),
      Some([requiredProfessions |-> <<<<"a">>>>]),
      Some([requiredProfessions |-> <<<<"5">>, <<"b">>>>]),
      Some([requiredProfessions |-> <<>>]),
      Some([category |-> <<"a", "b">>, userId |-> 1, status |-> "open"]),
      Some([category |-> <<"a">>, searchTerm |-> <<"a">>]) }

Professions == {<<"a">>, <<"a", "b">>, <<"5">>}
PersonTypes == {<<"a">>, <<"b">>}

(* eq(column, value): equality as the store compares values.               *)
eq(column, value) == column = value

(* How the store's LIKE folds the case of a letter.                        *)
FoldCase(c) == CASE c = "A" -> "a" [] c = "B" -> "b" [] OTHER -> c
FoldText(text) == [i \in DOMAIN text |-> FoldCase(text[i])]

(* like(column, `%term%`) on a column that holds a string or null.         *)
like(column, term) ==
    column.k = "str" /\ includes(FoldText(column.v), FoldText(term))

(* if (filters.key): the key is there and its value is not 0, "" or []     *)
(* (an empty list has length 0, which is what the code tests).             *)
Wanted(filters, key) ==
    /\ key \in DOMAIN filters
    /\ CASE key = "userId" -> filters[key] # 0
         [] key = "status" -> filters[key] # ""
         [] OTHER -> filters[key] # <<>>

categoryCondition_like(tender, filters) == like(JStr(tender.category), filters.category)

categoryCondition(tender, filters) == eq(tender.category, filters.category)

(* and(...conditions) of getTenders on one row.                            *)
TenderConditions(tender, filters) ==
    /\ Wanted(filters, "category") => categoryCondition(tender, filters)
    /\ Wanted(filters, "location") => like(JStr(tender.location), filters.location)
    /\ Wanted(filters, "status") => eq(tender.status, filters.status)
    /\ Wanted(filters, "userId") => eq(tender.userId, filters.userId)
    /\ Wanted(filters, "searchTerm") =>
          \/ like(JStr(tender.title), filters.searchTerm)
          \/ like(JStr(tender.description), filters.searchTerm)
    /\ Wanted(filters, "personType") => eq(tender.personType, filters.personType)
    /\ Wanted(filters, "requiredProfessions") =>
          \E i \in DOMAIN filters.requiredProfessions :
              like(tender.requiredProfessions, filters.requiredProfessions[i])

(* The text of a column that holds a string or null, for parseArray.       *)
ColumnText(column) == IF column.k = "str" THEN Some(column.v) ELSE None

(* The record of a tender with both list columns decoded.                  *)
TenderRecordWithProfessions(row) ==
    [TenderRecord(row) EXCEPT !.requiredProfessions = parseArray(ColumnText(@))]

getTenders(filters) ==
    LET Selected(tender) == filters = None \/ TenderConditions(tender, filters[1])
        result == SelectSeq(tenders, Selected)
    IN /\ last' = [op |-> "getTenders", filters |-> filters,
                   ret |-> Rows([i \in DOMAIN result |-> TenderRecord(result[i])])]
       /\ UNCHANGED <<server, calls, now, tables>>

getTendersByPersonType(personType) ==
    LET Selected(tender) == eq(tender.personType, personType)
        result == SelectSeq(tenders, Selected)
    IN /\ last' = [op |-> "getTendersByPersonType", personType |-> personType,
                   ret |-> Rows([i \in DOMAIN result |->
                                   TenderRecordWithProfessions(result[i])])]
       /\ UNCHANGED <<server, calls, now, tables>>

(* professions.includes(profession): on an array, some element is the      *)
(* profession; on a string, the profession occurs in it.                   *)
professionsInclude(professions, profession) ==
    CASE professions.k = "arr" ->
            \E i \in DOMAIN professions.v : professions.v[i] = JStr(profession)
      [] professions.k = "str" -> includes(professions.v, profession)
      [] OTHER -> FALSE

(* On a number, a boolean or null there is no includes to call: the call   *)
(* throws.                                                                 *)
getTendersByRequiredProfession(profession) ==
    LET professions(tender) == parseArray(ColumnText(tender.requiredProfessions))
        Selected(tender) == professionsInclude(professions(tender), profession)
        filteredTenders == SelectSeq(tenders, Selected)
        thrown == \E id \in DOMAIN tenders : professions(tenders[id]).k \in {"num", "lit"}
    IN /\ last' = [op |-> "getTendersByRequiredProfession", profession |-> profession,
                   ret |-> IF thrown THEN Raised
                           ELSE Rows([i \in DOMAIN filteredTenders |->
                                   TenderRecordWithProfessions(filteredTenders[i])])]
       /\ UNCHANGED <<server, calls, now, tables>>

incrementTenderViews_overwrites(id) ==
    /\ tenders' = IF Has(tenders, id) THEN [tenders EXCEPT ![id].viewCount = 1]
                   ELSE tenders
    /\ last' = [op |-> "incrementTenderViews", id |-> id,
                old |-> IF Has(tenders, id) THEN Some(tenders[id]) ELSE None,
                ret |-> Absent]
    /\ UNCHANGED <<server, calls, now, users, bids, reviews, listings,
                   messages, options, orders, estimates, projects, crews,
                   guarantees>>

(* One statement: UPDATE tenders SET view_count = view_count + 1 WHERE id. *)
incrementTenderViews(id) ==
    /\ tenders' = IF Has(tenders, id)
                   THEN [tenders EXCEPT ![id].viewCount = @ + 1]
                   ELSE tenders
    /\ last' = [op |-> "incrementTenderViews", id |-> id,
                old |-> IF Has(tenders, id) THEN Some(tenders[id]) ELSE None,
                ret |-> Absent]
    /\ UNCHANGED <<server, calls, now, users, bids, reviews, listings,
                   messages, options, orders, estimates, projects, crews,
                   guarantees>>

----------------------------------------------------------------------------
(* Tender bids.  A row: id, tenderId, isAccepted, createdAt.               *)

BidInputs == [tenderId : 1..(MaxTenders + 1)]

(* What a read of the row with this id hands back.                         *)
TenderBidById(id) == IF Has(bids, id) THEN Row(bids[id]) ELSE Absent

getTenderBid(id) ==
    /\ last' = [op |-> "getTenderBid", id |-> id,
                old |-> IF Has(bids, id) THEN Some(bids[id]) ELSE None,
                ret |-> TenderBidById(id)]
    /\ UNCHANGED <<server, calls, now, tables>>

createTenderBid(bid, answer) ==
    LET row == [c \in DOMAIN bid \cup {"id", "isAccepted", "createdAt"} |->
                  CASE c = "id" -> Len(bids) + 1
                    [] c = "isAccepted" -> FALSE
                    [] c = "createdAt" -> TimestampNow
                    [] OTHER -> bid[c]]
    IN /\ bids' = Append(bids, row)
       /\ last' = [op |-> "createTenderBid", answer |-> answer, given |-> bid,
                   ret |-> IF answer = "row" THEN Row(row) ELSE Absent]
       /\ UNCHANGED <<server, calls, now, users, tenders, reviews, listings,
                      messages, options, orders, estimates, projects, crews,
                      guarantees>>

acceptTenderBid_keepsTenderStatus(bidId) ==
    /\ bids' = IF Has(bids, bidId) THEN [bids EXCEPT ![bidId].isAccepted = TRUE]
               ELSE bids
    /\ last' = [op |-> "acceptTenderBid", id |-> bidId,
                old |-> IF Has(bids, bidId) THEN Some(bids[bidId]) ELSE None,
                wasAccepted |-> Has(bids, bidId) /\ bids[bidId].isAccepted,
                oldStatus |-> IF Has(bids, bidId) /\ Has(tenders, bids[bidId].tenderId)
                              THEN Some(tenders[bids[bidId].tenderId].status)
                              ELSE None,
                ret |-> IF Has(bids, bidId) THEN Row(bids'[bidId]) ELSE Absent]
    /\ UNCHANGED <<server, calls, now, users, tenders, reviews, listings,
                   messages, options, orders, estimates, projects, crews,
                   guarantees>>

acceptTenderBid_skipsAcceptedBid(bidId) ==
    IF ~Has(bids, bidId) \/ bids[bidId].isAccepted
    THEN acceptTenderBid_keepsTenderStatus(bidId)
    ELSE LET bid == bids[bidId] IN
         /\ tenders' = IF Has(tenders, bid.tenderId)
                        THEN [tenders EXCEPT ![bid.tenderId].status = "in_progress"]
                        ELSE tenders
         /\ bids' = [bids EXCEPT ![bidId].isAccepted = TRUE]
         /\ last' = [op |-> "acceptTenderBid", id |-> bidId, old |-> Some(bid),
                     wasAccepted |-> FALSE,
                     oldStatus |-> IF Has(tenders, bid.tenderId)
                                   THEN Some(tenders[bid.tenderId].status) ELSE None,
                     ret |-> Row(bids'[bidId])]
         /\ UNCHANGED <<server, calls, now, users, reviews, listings,
                        messages, options, orders, estimates, projects,
                        crews, guarantees>>

acceptTenderBid(bidId) ==
    IF ~Has(bids, bidId)
    THEN /\ last' = [op |-> "acceptTenderBid", id |-> bidId, old |-> None,
                     wasAccepted |-> FALSE, oldStatus |-> None, ret |-> Absent]
         /\ UNCHANGED <<server, calls, now, tables>>
    ELSE LET bid == bids[bidId] IN
         /\ tenders' = IF Has(tenders, bid.tenderId)
                        THEN [tenders EXCEPT ![bid.tenderId].status = "in_progress"]
                        ELSE tenders
         /\ bids' = [bids EXCEPT ![bidId].isAccepted = TRUE]
         /\ last' = [op |-> "acceptTenderBid", id |-> bidId, old |-> Some(bid),
                     wasAccepted |-> bid.isAccepted,
                     oldStatus |-> IF Has(tenders, bid.tenderId)
                                   THEN Some(tenders[bid.tenderId].status) ELSE None,
                     ret |-> Row(bids'[bidId])]
         /\ UNCHANGED <<server, calls, now, users, reviews, listings,
                        messages, options, orders, estimates, projects,
                        crews, guarantees>>

----------------------------------------------------------------------------
(* DatabaseUtils.camelToSnake, on the field names in use: an upper-case    *)
(* letter becomes an underscore and its lower-case letter.                 *)
camelToSnake(str) ==
    CASE str = "fullName" -> "full_name"
      [] str = "userType" -> "user_type"
      [] str = "createdAt" -> "created_at"
      [] str = "updatedAt" -> "updated_at"
      [] OTHER -> str

(* DatabaseUtils.buildUpdateQuery: UPDATE t SET <col = ?, ...>, updated_at *)
(* = ? WHERE id = ?.  With no field the SET clause starts with a comma and *)
(* the statement does not prepare.                                         *)
buildUpdateQuery(data) ==
    LET fields == DOMAIN data IN
    [prepares |-> fields # {},
     set |-> [c \in {camelToSnake(f) : f \in fields} \cup {"updated_at"} |->
                IF c = "updated_at" THEN TimestampNow
                ELSE data[CHOOSE f \in fields : camelToSnake(f) = c]]]

----------------------------------------------------------------------------
(* Users.  A row of the table: id, full_name, user_type, rating,           *)
(* created_at, updated_at.                                                 *)

UserInputs == [fullName : {"Ann"}, userType : {None, Some("contractor")}]

UserPatches ==
    {<<>>, [fullName |-> "Bob"]}
    \cup {[updatedAt |-> t] : t \in CallerStamps}
    \cup {[fullName |-> "Bob", updatedAt |-> t] : t \in CallerStamps}

(* The query builder's record of a users row.                              *)
UserFromRow(row) ==
    [id |-> row.id, fullName |-> row.full_name, userType |-> row.user_type,
     rating |-> row.rating, createdAt |-> row.created_at,
     updatedAt |-> row.updated_at]

(* What a read of the row with this id hands back.                         *)
UserById(id) == IF Has(users, id) THEN Row(UserFromRow(users[id])) ELSE Absent

getUser(id) ==
    /\ last' = [op |-> "getUser", id |-> id,
                old |-> IF Has(users, id) THEN Some(users[id]) ELSE None,
                ret |-> UserById(id)]
    /\ UNCHANGED <<server, calls, now, tables>>

createUser(user, answer) ==
    LET row == [id |-> Len(users) + 1,
                full_name |-> user.fullName,
                user_type |-> IF user.userType = None THEN "individual"
                              ELSE user.userType[1],
                rating |-> 0,
                created_at |-> TimestampNow,
                updated_at |-> TimestampNow]
    IN /\ users' = Append(users, row)
       /\ last' = [op |-> "createUser", answer |-> answer,
                   given |-> IF user.userType = None
                             THEN [fullName |-> user.fullName]
                             ELSE [fullName |-> user.fullName,
                                   userType |-> user.userType[1]],
                   ret |-> IF answer = "row" THEN Row(row) ELSE Raised]
       /\ UNCHANGED <<server, calls, now, tenders, bids, reviews, listings,
                      messages, options, orders, estimates, projects, crews,
                      guarantees>>

updateUser(id, userData) ==
    LET updateData == [f \in DOMAIN userData \ {"updatedAt"} |-> userData[f]]
        q == buildUpdateQuery(updateData)
        old == IF Has(users, id) THEN Some(users[id]) ELSE None
        cols == {camelToSnake(f) : f \in DOMAIN userData}
    IN IF ~q.prepares
       THEN /\ last' = [op |-> "updateUser", id |-> id, patch |-> userData,
                        cols |-> cols, old |-> old, ret |-> Raised]
            /\ UNCHANGED <<server, calls, now, tables>>
       ELSE /\ users' = IF Has(users, id)
                        THEN [users EXCEPT ![id] = SetColumns(@, q.set)]
                        ELSE users
            /\ last' = [op |-> "updateUser", id |-> id, patch |-> userData,
                        cols |-> cols, old |-> old,
                        ret |-> IF Has(users, id) THEN Row(users'[id]) ELSE Absent]
            /\ UNCHANGED <<server, calls, now, tenders, bids, reviews,
                           listings, messages, options, orders, estimates,
                           projects, crews, guarantees>>

----------------------------------------------------------------------------
(* Reviews.  A row: id, recipientId, rating, createdAt.                    *)

Ratings == {2, 5}
ReviewInputs == [recipientId : {1, 2}, rating : Ratings]

ReviewsOf(userId) == SelectSeq(reviews, LAMBDA r : r.recipientId = userId)

getUserReviews(userId) ==
    /\ last' = [op |-> "getUserReviews", id |-> userId, ret |-> Rows(ReviewsOf(userId))]
    /\ UNCHANGED <<server, calls, now, tables>>

createReview(review, answer) ==
    LET row == [id |-> Len(reviews) + 1,
                recipientId |-> review.recipientId,
                rating |-> review.rating,
                createdAt |-> TimestampNow]
    IN /\ reviews' = Append(reviews, row)
       /\ last' = [op |-> "createReview", answer |-> answer, given |-> review,
                   ret |-> IF answer = "row" THEN Row(row) ELSE Absent]
       /\ UNCHANGED <<server, calls, now, users, tenders, bids, listings,
                      messages, options, orders, estimates, projects, crews,
                      guarantees>>

RECURSIVE SumRatings(_)
SumRatings(rs) == IF rs = <<>> THEN 0 ELSE Head(rs).rating + SumRatings(Tail(rs))

MathRound_truncates(total, count) == total \div count

(* Math.round(total / count) for total >= 0, count > 0: halves go up.      *)
MathRound(total, count) == (2 * total + count) \div (2 * count)

updateUserRating(userId) ==
    LET userReviews == ReviewsOf(userId)
        totalRating == SumRatings(userReviews)
        averageRating == MathRound(totalRating, Len(userReviews))
    IN IF Len(userReviews) = 0
       THEN /\ last' = [op |-> "updateUserRating", id |-> userId,
                        old |-> IF Has(users, userId) THEN Some(users[userId])
                                ELSE None,
                        ret |-> Val(0)]
            /\ UNCHANGED <<server, calls, now, tables>>
       ELSE IF ~Has(users, userId)
       THEN \* no row comes back, and reading its rating throws
            /\ last' = [op |-> "updateUserRating", id |-> userId, old |-> None,
                        ret |-> Raised]
            /\ UNCHANGED <<server, calls, now, tables>>
       ELSE /\ users' = [users EXCEPT ![userId].rating = averageRating]
            /\ last' = [op |-> "updateUserRating", id |-> userId,
                        old |-> Some(users[userId]),
                        ret |-> Val(users'[userId].rating)]
            /\ UNCHANGED <<server, calls, now, tenders, bids, reviews,
                           listings, messages, options, orders, estimates,
                           projects, crews, guarantees>>

----------------------------------------------------------------------------
(* Messages.  A row of the table: id, content, is_read (0 or 1),           *)
(* created_at.                                                             *)

MessageInputs == [content : {"hi"}]

(* The query builder's record of a messages row.                           *)
MessageFromRow(row) ==
    [id |-> row.id, content |-> row.content, isRead |-> row.is_read # 0,
     createdAt |-> row.created_at]

createMessage(msg, answer) ==
    LET row == [id |-> Len(messages) + 1,
                content |-> msg.content,
                is_read |-> 0,
                created_at |-> TimestampNow]
    IN /\ messages' = Append(messages, row)
       /\ last' = [op |-> "createMessage", answer |-> answer, given |-> msg,
                   ret |-> IF answer = "row"
                           THEN Row([id |-> row.id, content |-> row.content,
                                     isRead |-> row.is_read # 0,
                                     createdAt |-> row.created_at])
                           ELSE Raised]
       /\ UNCHANGED <<server, calls, now, users, tenders, bids, reviews,
                      listings, options, orders, estimates, projects, crews,
                      guarantees>>

markMessageAsRead(id) ==
    /\ messages' = IF Has(messages, id) THEN [messages EXCEPT ![id].is_read = 1]
                   ELSE messages
    /\ last' = [op |-> "markMessageAsRead", id |-> id,
                old |-> IF Has(messages, id) THEN Some(messages[id]) ELSE None,
                ret |-> IF Has(messages, id) THEN Row(MessageFromRow(messages'[id]))
                        ELSE Absent]
    /\ UNCHANGED <<server, calls, now, users, tenders, bids, reviews,
                   listings, options, orders, estimates, projects, crews,
                   guarantees>>

----------------------------------------------------------------------------
(* Marketplace listings.  A row: id, title, images (JSON text), viewCount, *)
(* createdAt, updatedAt.                                                   *)

ListingInputs == [title : {"saw"}, images : {None, Some(JArr(<<JStr(Url1)>>))}]

ListingPatches ==
    {[title |-> "drill"]} \cup {[title |-> "drill", updatedAt |-> t] : t \in CallerStamps}

ListingRecord(row) == [row EXCEPT !.images = parseArray(Some(row.images))]

(* What a read of the row with this id hands back.                         *)
ListingById(id) == IF Has(listings, id) THEN Row(ListingRecord(listings[id])) ELSE Absent

getMarketplaceListing(id) ==
    /\ last' = [op |-> "getMarketplaceListing", id |-> id,
                old |-> IF Has(listings, id) THEN Some(listings[id]) ELSE None,
                ret |-> ListingById(id)]
    /\ UNCHANGED <<server, calls, now, tables>>

createMarketplaceListing(listing, answer) ==
    LET row == [id |-> Len(listings) + 1,
                title |-> listing.title,
                images |-> stringify(listing.images),
                viewCount |-> 0,
                createdAt |-> TimestampNow,
                updatedAt |-> TimestampNow]
    IN /\ listings' = Append(listings, row)
       /\ last' = [op |-> "createMarketplaceListing", answer |-> answer,
                   given |-> IF listing.images = None THEN [title |-> listing.title]
                             ELSE [title |-> listing.title,
                                   images |-> listing.images[1]],
                   ret |-> IF answer = "row" THEN Row(ListingRecord(row)) ELSE Raised]
       /\ UNCHANGED <<server, calls, now, users, tenders, bids, reviews,
                      messages, options, orders, estimates, projects, crews,
                      guarantees>>

updateMarketplaceListing(id, listingData) ==
    LET data == IF "images" \in DOMAIN listingData
                THEN [listingData EXCEPT !.images = stringify(Some(listingData.images))]
                ELSE listingData
    IN /\ listings' = IF Has(listings, id)
                      THEN [listings EXCEPT ![id] = SetColumns(@, data)]
                      ELSE listings
       /\ last' = [op |-> "updateMarketplaceListing", id |-> id, patch |-> listingData,
                   cols |-> DOMAIN listingData,
                   old |-> IF Has(listings, id) THEN Some(listings[id]) ELSE None,
                   ret |-> IF Has(listings, id) THEN Row(ListingRecord(listings'[id]))
                           ELSE Absent]
       /\ UNCHANGED <<server, calls, now, users, tenders, bids, reviews,
                      messages, options, orders, estimates, projects, crews,
                      guarantees>>

(* One statement: UPDATE marketplace_listings SET view_count = view_count  *)
(* + 1 WHERE id.                                                           *)
incrementListingViews(id) ==
    /\ listings' = IF Has(listings, id)
                    THEN [listings EXCEPT ![id].viewCount = @ + 1]
                    ELSE listings
    /\ last' = [op |-> "incrementListingViews", id |-> id,
                old |-> IF Has(listings, id) THEN Some(listings[id]) ELSE None,
                ret |-> Absent]
    /\ UNCHANGED <<server, calls, now, users, tenders, bids, reviews,
                   messages, options, orders, estimates, projects, crews,
                   guarantees>>

----------------------------------------------------------------------------
(* Delivery options.  A row: id, name, isActive.                           *)

OptionInputs == [name : {"courier"}, isActive : BOOLEAN]
OptionPatches == {[name |-> "post"], [isActive |-> TRUE]}

getDeliveryOptions ==
    /\ last' = [op |-> "getDeliveryOptions",
                ret |-> Rows(SelectSeq(options, LAMBDA o : o.isActive))]
    /\ UNCHANGED <<server, calls, now, tables>>

(* What a read of the row with this id hands back.                         *)
DeliveryOptionById(id) == IF Has(options, id) THEN Row(options[id]) ELSE Absent

getDeliveryOption(id) ==
    /\ last' = [op |-> "getDeliveryOption", id |-> id,
                old |-> IF Has(options, id) THEN Some(options[id]) ELSE None,
                ret |-> DeliveryOptionById(id)]
    /\ UNCHANGED <<server, calls, now, tables>>

createDeliveryOption(option, answer) ==
    LET row == [id |-> Len(options) + 1,
                name |-> option.name,
                isActive |-> option.isActive]
    IN /\ options' = Append(options, row)
       /\ last' = [op |-> "createDeliveryOption", answer |-> answer, given |-> option,
                   ret |-> IF answer = "row" THEN Row(row) ELSE Absent]
       /\ UNCHANGED <<server, calls, now, users, tenders, bids, reviews,
                      listings, messages, orders, estimates, projects, crews,
                      guarantees>>

updateDeliveryOption(id, optionData) ==
    /\ options' = IF Has(options, id)
                  THEN [options EXCEPT ![id] = SetColumns(@, optionData)]
                  ELSE options
    /\ last' = [op |-> "updateDeliveryOption", id |-> id, patch |-> optionData,
                cols |-> DOMAIN optionData,
                old |-> IF Has(options, id) THEN Some(options[id]) ELSE None,
                ret |-> IF Has(options, id) THEN Row(options'[id]) ELSE Absent]
    /\ UNCHANGED <<server, calls, now, users, tenders, bids, reviews,
                   listings, messages, orders, estimates, projects, crews,
                   guarantees>>

deleteDeliveryOption_removesRow(id) ==
    /\ options' = IF Has(options, id) THEN SubSeq(options, 1, id - 1) ELSE options
    /\ last' = [op |-> "deleteDeliveryOption", id |-> id,
                old |-> IF Has(options, id) THEN Some(options[id]) ELSE None,
                ret |-> Val(TRUE)]
    /\ UNCHANGED <<server, calls, now, users, tenders, bids, reviews,
                   listings, messages, orders, estimates, projects, crews,
                   guarantees>>

deleteDeliveryOption(id) ==
    /\ options' = IF Has(options, id) THEN [options EXCEPT ![id].isActive = FALSE]
                  ELSE options
    /\ last' = [op |-> "deleteDeliveryOption", id |-> id,
                old |-> IF Has(options, id) THEN Some(options[id]) ELSE None,
                ret |-> Val(TRUE)]
    /\ UNCHANGED <<server, calls, now, users, tenders, bids, reviews,
                   listings, messages, orders, estimates, projects, crews,
                   guarantees>>

----------------------------------------------------------------------------
(* Delivery orders.  A row: id, status, trackingCode, createdAt, updatedAt. *)

OrderInputs == [status : {"pending"}, trackingCode : {""}]

(* What a read of the row with this id hands back.                         *)
DeliveryOrderById(id) == IF Has(orders, id) THEN Row(orders[id]) ELSE Absent

getDeliveryOrder(id) ==
    /\ last' = [op |-> "getDeliveryOrder", id |-> id,
                old |-> IF Has(orders, id) THEN Some(orders[id]) ELSE None,
                ret |-> DeliveryOrderById(id)]
    /\ UNCHANGED <<server, calls, now, tables>>

createDeliveryOrder(order, answer) ==
    LET row == [id |-> Len(orders) + 1,
                status |-> order.status,
                trackingCode |-> order.trackingCode,
                createdAt |-> TimestampNow,
                updatedAt |-> TimestampNow]
    IN /\ orders' = Append(orders, row)
       /\ last' = [op |-> "createDeliveryOrder", answer |-> answer, given |-> order,
                   ret |-> IF answer = "row" THEN Row(row) ELSE Absent]
       /\ UNCHANGED <<server, calls, now, users, tenders, bids, reviews,
                      listings, messages, options, estimates, projects,
                      crews, guarantees>>

updateDeliveryOrderStatus(id, status) ==
    /\ orders' = IF Has(orders, id)
                 THEN [orders EXCEPT ![id] =
                         SetColumns(@, [status |-> status, updatedAt |-> TimestampNow])]
                 ELSE orders
    /\ last' = [op |-> "updateDeliveryOrderStatus", id |-> id, cols |-> {"status"},
                old |-> IF Has(orders, id) THEN Some(orders[id]) ELSE None,
                ret |-> IF Has(orders, id) THEN Row(orders'[id]) ELSE Absent]
    /\ UNCHANGED <<server, calls, now, users, tenders, bids, reviews,
                   listings, messages, options, estimates, projects, crews,
                   guarantees>>

updateDeliveryOrderTracking(id, trackingCode) ==
    /\ orders' = IF Has(orders, id)
                 THEN [orders EXCEPT ![id] =
                         SetColumns(@, [trackingCode |-> trackingCode,
                                        updatedAt |-> TimestampNow])]
                 ELSE orders
    /\ last' = [op |-> "updateDeliveryOrderTracking", id |-> id,
                cols |-> {"trackingCode"},
                old |-> IF Has(orders, id) THEN Some(orders[id]) ELSE None,
                ret |-> IF Has(orders, id) THEN Row(orders'[id]) ELSE Absent]
    /\ UNCHANGED <<server, calls, now, users, tenders, bids, reviews,
                   listings, messages, options, estimates, projects, crews,
                   guarantees>>

----------------------------------------------------------------------------
(* Estimates.  A row: id, status, createdAt, updatedAt.                    *)

EstimateInputs == [status : {"draft"}]
EstimatePatches ==
    {[status |-> "sent"]} \cup {[status |-> "sent", updatedAt |-> t] : t \in CallerStamps}

(* What a read of the row with this id hands back.                         *)
EstimateById(id) == IF Has(estimates, id) THEN Row(estimates[id]) ELSE Absent

getEstimate(id) ==
    /\ last' = [op |-> "getEstimate", id |-> id,
                old |-> IF Has(estimates, id) THEN Some(estimates[id]) ELSE None,
                ret |-> EstimateById(id)]
    /\ UNCHANGED <<server, calls, now, tables>>

createEstimate(estimate, answer) ==
    LET row == [id |-> Len(estimates) + 1,
                status |-> estimate.status,
                createdAt |-> TimestampNow,
                updatedAt |-> TimestampNow]
    IN /\ estimates' = Append(estimates, row)
       /\ last' = [op |-> "createEstimate", answer |-> answer, given |-> estimate,
                   ret |-> IF answer = "row" THEN Row(row) ELSE Absent]
       /\ UNCHANGED <<server, calls, now, users, tenders, bids, reviews,
                      listings, messages, options, orders, projects, crews,
                      guarantees>>

updateEstimate(id, estimateData) ==
    LET data == [c \in DOMAIN estimateData \cup {"updatedAt"} |->
                   IF c = "updatedAt" THEN TimestampNow ELSE estimateData[c]]
    IN /\ estimates' = IF Has(estimates, id)
                       THEN [estimates EXCEPT ![id] = SetColumns(@, data)]
                       ELSE estimates
       /\ last' = [op |-> "updateEstimate", id |-> id, patch |-> estimateData,
                   cols |-> DOMAIN estimateData,
                   old |-> IF Has(estimates, id) THEN Some(estimates[id]) ELSE None,
                   ret |-> IF Has(estimates, id) THEN Row(estimates'[id]) ELSE Absent]
       /\ UNCHANGED <<server, calls, now, users, tenders, bids, reviews,
                      listings, messages, options, orders, projects, crews,
                      guarantees>>

updateEstimateStatus(id, status) ==
    /\ estimates' = IF Has(estimates, id)
                    THEN [estimates EXCEPT ![id] =
                            SetColumns(@, [status |-> status,
                                           updatedAt |-> TimestampNow])]
                    ELSE estimates
    /\ last' = [op |-> "updateEstimateStatus", id |-> id, cols |-> {"status"},
                old |-> IF Has(estimates, id) THEN Some(estimates[id]) ELSE None,
                ret |-> IF Has(estimates, id) THEN Row(estimates'[id]) ELSE Absent]
    /\ UNCHANGED <<server, calls, now, users, tenders, bids, reviews,
                   listings, messages, options, orders, projects, crews,
                   guarantees>>

----------------------------------------------------------------------------
(* Design projects.  A row: id, status, visualizationUrls and projectFiles *)
(* (JSON text), updatedAt (stamped by the store when the row is inserted). *)

ProjectInputs ==
    [status : {"draft"}, visualizationUrls : {None, Some(JArr(<<JStr(Url1)>>))},
     projectFiles : {None}]

ProjectPatches ==
    {[status |-> "done"], [projectFiles |-> JArr(<<JStr(Url1)>>)]}
    \cup {[status |-> "done", updatedAt |-> t] : t \in CallerStamps}

ProjectRecord(row) ==
    [row EXCEPT !.visualizationUrls = parseArray(Some(row.visualizationUrls)),
                !.projectFiles = parseArray(Some(row.projectFiles))]

(* What a read of the row with this id hands back.                         *)
DesignProjectById(id) == IF Has(projects, id) THEN Row(ProjectRecord(projects[id])) ELSE Absent

getDesignProject(id) ==
    /\ last' = [op |-> "getDesignProject", id |-> id,
                old |-> IF Has(projects, id) THEN Some(projects[id]) ELSE None,
                ret |-> DesignProjectById(id)]
    /\ UNCHANGED <<server, calls, now, tables>>

createDesignProject(project, answer) ==
    LET row == [id |-> Len(projects) + 1,
                status |-> project.status,
                visualizationUrls |-> stringify(project.visualizationUrls),
                projectFiles |-> stringify(project.projectFiles),
                updatedAt |-> TimestampNow]
    IN /\ projects' = Append(projects, row)
       /\ last' = [op |-> "createDesignProject", answer |-> answer,
                   given |-> IF project.visualizationUrls = None
                             THEN [status |-> project.status]
                             ELSE [status |-> project.status,
                                   visualizationUrls |-> project.visualizationUrls[1]],
                   ret |-> IF answer = "row" THEN Row(ProjectRecord(row)) ELSE Raised]
       /\ UNCHANGED <<server, calls, now, users, tenders, bids, reviews,
                      listings, messages, options, orders, estimates, crews,
                      guarantees>>

updateDesignProject(id, projectData) ==
    LET stamped == [c \in DOMAIN projectData \cup {"updatedAt"} |->
                      IF c = "updatedAt" THEN TimestampNow ELSE projectData[c]]
        withUrls == IF "visualizationUrls" \in DOMAIN stamped
                    THEN [stamped EXCEPT !.visualizationUrls =
                                            stringify(Some(stamped.visualizationUrls))]
                    ELSE stamped
        data == IF "projectFiles" \in DOMAIN withUrls
                THEN [withUrls EXCEPT !.projectFiles =
                                         stringify(Some(withUrls.projectFiles))]
                ELSE withUrls
    IN /\ projects' = IF Has(projects, id)
                      THEN [projects EXCEPT ![id] = SetColumns(@, data)]
                      ELSE projects
       /\ last' = [op |-> "updateDesignProject", id |-> id, patch |-> projectData,
                   cols |-> DOMAIN projectData,
                   old |-> IF Has(projects, id) THEN Some(projects[id]) ELSE None,
                   ret |-> IF Has(projects, id) THEN Row(ProjectRecord(projects'[id]))
                           ELSE Absent]
       /\ UNCHANGED <<server, calls, now, users, tenders, bids, reviews,
                      listings, messages, options, orders, estimates, crews,
                      guarantees>>

updateDesignProjectStatus(id, status) ==
    /\ projects' = IF Has(projects, id)
                   THEN [projects EXCEPT ![id] =
                           SetColumns(@, [status |-> status,
                                          updatedAt |-> TimestampNow])]
                   ELSE projects
    /\ last' = [op |-> "updateDesignProjectStatus", id |-> id, cols |-> {"status"},
                old |-> IF Has(projects, id) THEN Some(projects[id]) ELSE None,
                ret |-> IF Has(projects, id) THEN Row(ProjectRecord(projects'[id]))
                        ELSE Absent]
    /\ UNCHANGED <<server, calls, now, users, tenders, bids, reviews,
                   listings, messages, options, orders, estimates, crews,
                   guarantees>>

Push_prepends(list, str) ==
    IF list.k = "arr" THEN Some(JArr(<<JStr(str)>> \o list.v)) ELSE None

(* Array.prototype.push on what parseArray handed back: on a value that is *)
(* no array the call throws.                                               *)
Push(list, str) == IF list.k = "arr" THEN Some(JArr(Append(list.v, JStr(str)))) ELSE None

addProjectVisualization(id, visualizationUrl) ==
    IF ~Has(projects, id)
    THEN /\ last' = [op |-> "addProjectVisualization", id |-> id,
                     url |-> visualizationUrl, old |-> None,
                     ret |-> Absent]
         /\ UNCHANGED <<server, calls, now, tables>>
    ELSE LET currentVisualizations ==
                 Push(parseArray(Some(projects[id].visualizationUrls)), visualizationUrl)
         IN IF currentVisualizations = None
            THEN /\ last' = [op |-> "addProjectVisualization", id |-> id,
                             url |-> visualizationUrl,
                             old |-> Some(projects[id]), ret |-> Raised]
                 /\ UNCHANGED <<server, calls, now, tables>>
            ELSE /\ projects' = [projects EXCEPT ![id] =
                        SetColumns(@, [visualizationUrls |->
                                          stringify(currentVisualizations),
                                       updatedAt |-> TimestampNow])]
                 /\ last' = [op |-> "addProjectVisualization", id |-> id,
                             url |-> visualizationUrl,
                             old |-> Some(projects[id]),
                             ret |-> Row(ProjectRecord(projects'[id]))]
                 /\ UNCHANGED <<server, calls, now, users, tenders, bids,
                                reviews, listings, messages, options, orders,
                                estimates, crews, guarantees>>

addProjectFile(id, fileUrl) ==
    IF ~Has(projects, id)
    THEN /\ last' = [op |-> "addProjectFile", id |-> id, url |-> fileUrl,
                     old |-> None, ret |-> Absent]
         /\ UNCHANGED <<server, calls, now, tables>>
    ELSE LET currentFiles == Push(parseArray(Some(projects[id].projectFiles)), fileUrl)
         IN IF currentFiles = None
            THEN /\ last' = [op |-> "addProjectFile", id |-> id, url |-> fileUrl,
                             old |-> Some(projects[id]), ret |-> Raised]
                 /\ UNCHANGED <<server, calls, now, tables>>
            ELSE /\ projects' = [projects EXCEPT ![id] =
                        SetColumns(@, [projectFiles |-> stringify(currentFiles),
                                       updatedAt |-> TimestampNow])]
                 /\ last' = [op |-> "addProjectFile", id |-> id, url |-> fileUrl,
                             old |-> Some(projects[id]),
                             ret |-> Row(ProjectRecord(projects'[id]))]
                 /\ UNCHANGED <<server, calls, now, users, tenders, bids,
                                reviews, listings, messages, options, orders,
                                estimates, crews, guarantees>>

----------------------------------------------------------------------------
(* Crews.  A row: id, name, isAvailable, updatedAt (stamped by the store   *)
(* when the row is inserted).                                              *)

CrewInputs == [name : {"masons"}, isAvailable : {TRUE}]
CrewPatches ==
    {[isAvailable |-> FALSE]}
    \cup {[isAvailable |-> FALSE, updatedAt |-> t] : t \in CallerStamps}

(* What a read of the row with this id hands back.                         *)
CrewById(id) == IF Has(crews, id) THEN Row(crews[id]) ELSE Absent

getCrew(id) ==
    /\ last' = [op |-> "getCrew", id |-> id,
                old |-> IF Has(crews, id) THEN Some(crews[id]) ELSE None,
                ret |-> CrewById(id)]
    /\ UNCHANGED <<server, calls, now, tables>>

createCrew(crew, answer) ==
    LET row == [id |-> Len(crews) + 1,
                name |-> crew.name,
                isAvailable |-> crew.isAvailable,
                updatedAt |-> TimestampNow]
    IN /\ crews' = Append(crews, row)
       /\ last' = [op |-> "createCrew", answer |-> answer, given |-> crew,
                   ret |-> IF answer = "row" THEN Row(row) ELSE Absent]
       /\ UNCHANGED <<server, calls, now, users, tenders, bids, reviews,
                      listings, messages, options, orders, estimates,
                      projects, guarantees>>

updateCrew(id, crewData) ==
    LET data == [c \in DOMAIN crewData \cup {"updatedAt"} |->
                   IF c = "updatedAt" THEN TimestampNow ELSE crewData[c]]
    IN /\ crews' = IF Has(crews, id) THEN [crews EXCEPT ![id] = SetColumns(@, data)]
                   ELSE crews
       /\ last' = [op |-> "updateCrew", id |-> id, patch |-> crewData,
                   cols |-> DOMAIN crewData,
                   old |-> IF Has(crews, id) THEN Some(crews[id]) ELSE None,
                   ret |-> IF Has(crews, id) THEN Row(crews'[id]) ELSE Absent]
       /\ UNCHANGED <<server, calls, now, users, tenders, bids, reviews,
                      listings, messages, options, orders, estimates,
                      projects, guarantees>>

----------------------------------------------------------------------------
(* Bank guarantees.  A row of the table: id, tender_id (or NULL), status,  *)
(* created_at, updated_at.                                                 *)

GuaranteeInputs == [tenderId : {None, Some(1)}, status : {None, Some("active")}]

(* DatabaseUtils.transformBankGuaranteeFromDb *)
transformBankGuaranteeFromDb(guarantee) ==
    [id |-> guarantee.id,
     tenderId |-> guarantee.tender_id,
     status |-> guarantee.status,
     createdAt |-> guarantee.created_at,
     updatedAt |-> guarantee.updated_at]

(* What a read of the row with this id hands back.                         *)
BankGuaranteeById(id) == IF Has(guarantees, id) THEN Row(transformBankGuaranteeFromDb(guarantees[id])) ELSE Absent

getBankGuarantee(id) ==
    /\ last' = [op |-> "getBankGuarantee", id |-> id,
                old |-> IF Has(guarantees, id) THEN Some(guarantees[id]) ELSE None,
                ret |-> BankGuaranteeById(id)]
    /\ UNCHANGED <<server, calls, now, tables>>

createBankGuarantee(insertGuarantee, answer) ==
    LET row == [id |-> Len(guarantees) + 1,
                tender_id |-> insertGuarantee.tenderId,
                status |-> IF insertGuarantee.status = None THEN "pending"
                           ELSE insertGuarantee.status[1],
                created_at |-> TimestampNow,
                updated_at |-> TimestampNow]
    IN /\ guarantees' = Append(guarantees, row)
       /\ last' = [op |-> "createBankGuarantee", answer |-> answer,
                   given |-> IF insertGuarantee.status = None
                             THEN [tenderId |-> insertGuarantee.tenderId]
                             ELSE [tenderId |-> insertGuarantee.tenderId,
                                   status |-> insertGuarantee.status[1]],
                   ret |-> IF answer = "row"
                           THEN Row(transformBankGuaranteeFromDb(row))
                           ELSE Raised]
       /\ UNCHANGED <<server, calls, now, users, tenders, bids, reviews,
                      listings, messages, options, orders, estimates,
                      projects, crews>>

updateBankGuaranteeStatus(id, status) ==
    IF ~Has(guarantees, id)
    THEN /\ last' = [op |-> "updateBankGuaranteeStatus", id |-> id,
                     cols |-> {"status"}, old |-> None, ret |-> Absent]
         /\ UNCHANGED <<server, calls, now, tables>>
    ELSE /\ guarantees' = [guarantees EXCEPT ![id] =
                SetColumns(@, [status |-> status, updated_at |-> TimestampNow])]
         /\ last' = [op |-> "updateBankGuaranteeStatus", id |-> id,
                     cols |-> {"status"}, old |-> Some(guarantees[id]),
                     ret |-> Row(transformBankGuaranteeFromDb(guarantees'[id]))]
         /\ UNCHANGED <<server, calls, now, users, tenders, bids, reviews,
                        listings, messages, options, orders, estimates,
                        projects, crews>>

----------------------------------------------------------------------------
Tick ==
    /\ now < MaxClock
    /\ now' = now + 1
    /\ last' = Idle
    /\ UNCHANGED <<server, calls, tables>>

(* The server process before its startup code has run: no step done, not   *)
(* listening, no request met.                                              *)
Down == [done |-> <<>>, listening |-> FALSE, served |-> 0, refused |-> 0]

Init ==
    /\ now = 1
    /\ users = <<>> /\ tenders = <<>> /\ bids = <<>> /\ reviews = <<>>
    /\ listings = <<>> /\ messages = <<>> /\ options = <<>> /\ orders = <<>>
    /\ estimates = <<>> /\ projects = <<>> /\ crews = <<>> /\ guarantees = <<>>
    /\ last = Idle
    /\ calls = <<>>
    /\ server = Down

TenderIds == 1..(MaxTenders + 1)
BidIds == 1..(MaxBids + 1)
OptionIds == 1..(MaxRows + 1)

(* The tenders and their bids, alone.                                      *)
NextBids ==
    \/ \E t \in {x \in TenderInputs : x.images = None}, a \in BuilderAnswers :
          Len(tenders) < MaxTenders /\ createTender(t, a)
    \/ \E id \in TenderIds : updateTender(id, [status |-> "closed"])
    \/ \E id \in TenderIds : getTender(id)
    \/ \E b \in BidInputs, a \in BuilderAnswers :
          Len(bids) < MaxBids /\ createTenderBid(b, a)
    \/ \E id \in BidIds : getTenderBid(id)
    \/ \E id \in BidIds : acceptTenderBid(id)

(* The users and their reviews, alone.                                     *)
UserIds == 1..(MaxUsers + 1)

NextRating ==
    \/ \E u \in UserInputs, a \in RawAnswers :
          Len(users) < MaxUsers /\ createUser(u, a)
    \/ \E id \in UserIds, p \in UserPatches : updateUser(id, p)
    \/ \E id \in UserIds : getUser(id)
    \/ \E r \in ReviewInputs, a \in BuilderAnswers :
          Len(reviews) < MaxReviews /\ createReview(r, a)
    \/ \E id \in UserIds : getUserReviews(id)
    \/ \E id \in UserIds : updateUserRating(id)

(* The delivery options, alone.                                            *)
NextDelivery ==
    \/ \E o \in OptionInputs, a \in BuilderAnswers :
          Len(options) < MaxRows /\ createDeliveryOption(o, a)
    \/ \E id \in OptionIds, p \in OptionPatches : updateDeliveryOption(id, p)
    \/ \E id \in OptionIds : deleteDeliveryOption(id)
    \/ \E id \in OptionIds : getDeliveryOption(id)
    \/ getDeliveryOptions

(* The view counters of tenders and listings, among the other calls on    *)
(* the same rows.                                                          *)
ViewedIds == 1..(MaxViewed + 1)

NextViews ==
    \/ \E t \in {x \in TenderInputs : x.images = None}, a \in BuilderAnswers :
          Len(tenders) < MaxViewed /\ createTender(t, a)
    \/ \E l \in {x \in ListingInputs : x.images = None}, a \in BuilderAnswers :
          Len(listings) < MaxViewed /\ createMarketplaceListing(l, a)
    \/ \E id \in ViewedIds :
          /\ Has(tenders, id) => tenders[id].viewCount < MaxViews
          /\ incrementTenderViews(id)
    \/ \E id \in ViewedIds :
          /\ Has(listings, id) => listings[id].viewCount < MaxViews
          /\ incrementListingViews(id)
    \/ \E id \in ViewedIds : updateTender(id, [status |-> "closed"])
    \/ \E id \in ViewedIds : updateMarketplaceListing(id, [title |-> "drill"])
    \/ \E id \in ViewedIds : getTender(id)
    \/ \E id \in ViewedIds : getMarketplaceListing(id)

(* The list in a project's column holds fewer than MaxUrls elements.       *)
RoomFor(id, column) ==
    Has(projects, id) => Len(projects[id][column]) < Len(stringify(None)) + 4 * MaxUrls

(* The design projects, alone.                                             *)
ProjectIds == 1..(MaxProjects + 1)

NextProjects ==
    \/ \E p \in ProjectInputs, a \in BuilderAnswers :
          Len(projects) < MaxProjects /\ createDesignProject(p, a)
    \/ \E id \in ProjectIds, p \in ProjectPatches : updateDesignProject(id, p)
    \/ \E id \in ProjectIds : getDesignProject(id)
    \/ \E id \in ProjectIds :
          RoomFor(id, "visualizationUrls") /\ addProjectVisualization(id, Url2)
    \/ \E id \in ProjectIds :
          RoomFor(id, "projectFiles") /\ addProjectFile(id, Url1)

(* The lists of tenders.                                                   *)
NextTenders ==
    \/ \E t \in ListedTenderInputs, a \in BuilderAnswers :
          Len(tenders) < MaxListed /\ createTender(t, a)
    \/ \E f \in TenderFilters : getTenders(f)
    \/ \E t \in PersonTypes : getTendersByPersonType(t)
    \/ \E p \in Professions : getTendersByRequiredProfession(p)

(* The codec alone.                                                        *)
NextCodec ==
    \/ \E data \in {None} \cup {Some(JArr(l)) : l \in StringLists} : stringifyCall(data)
    \/ decodeEncoded
    \/ \E json \in {None} \cup {Some(t) : t \in StoredTexts} : parseArrayCall(json)

(* The whole store.                                                        *)
TotalRows ==
    Len(users) + Len(tenders) + Len(bids) + Len(reviews) + Len(listings)
    + Len(messages) + Len(options) + Len(orders) + Len(estimates) + Len(projects)
    + Len(crews) + Len(guarantees)

StoreIds == 1..(MaxTotal + 1)

Create ==
    /\ TotalRows < MaxTotal
    /\ \/ \E u \in UserInputs, a \in RawAnswers : createUser(u, a)
       \/ \E t \in TenderInputs, a \in BuilderAnswers : createTender(t, a)
       \/ \E b \in BidInputs, a \in BuilderAnswers : createTenderBid(b, a)
       \/ \E r \in ReviewInputs, a \in BuilderAnswers : createReview(r, a)
       \/ \E l \in ListingInputs, a \in BuilderAnswers : createMarketplaceListing(l, a)
       \/ \E m \in MessageInputs, a \in RawAnswers : createMessage(m, a)
       \/ \E o \in OptionInputs, a \in BuilderAnswers : createDeliveryOption(o, a)
       \/ \E o \in OrderInputs, a \in BuilderAnswers : createDeliveryOrder(o, a)
       \/ \E e \in EstimateInputs, a \in BuilderAnswers : createEstimate(e, a)
       \/ \E p \in ProjectInputs, a \in BuilderAnswers : createDesignProject(p, a)
       \/ \E c \in CrewInputs, a \in BuilderAnswers : createCrew(c, a)
       \/ \E g \in GuaranteeInputs, a \in RawAnswers : createBankGuarantee(g, a)

Read ==
    \E id \in StoreIds :
       \/ getUser(id)
       \/ getTender(id)
       \/ getTenderBid(id)
       \/ getUserReviews(id)
       \/ getMarketplaceListing(id)
       \/ getDeliveryOption(id)
       \/ getDeliveryOptions
       \/ getDeliveryOrder(id)
       \/ getEstimate(id)
       \/ getDesignProject(id)
       \/ getCrew(id)
       \/ getBankGuarantee(id)

Update ==
    \E id \in StoreIds :
       \/ \E p \in UserPatches : updateUser(id, p)
       \/ updateUserRating(id)
       \/ \E p \in TenderPatches : updateTender(id, p)
       \/ acceptTenderBid(id)
       \/ \E p \in ListingPatches : updateMarketplaceListing(id, p)
       \/ markMessageAsRead(id)
       \/ \E p \in OptionPatches : updateDeliveryOption(id, p)
       \/ deleteDeliveryOption(id)
       \/ updateDeliveryOrderStatus(id, "shipped")
       \/ updateDeliveryOrderTracking(id, "TRK1")
       \/ \E p \in EstimatePatches : updateEstimate(id, p)
       \/ updateEstimateStatus(id, "accepted")
       \/ \E p \in ProjectPatches : updateDesignProject(id, p)
       \/ updateDesignProjectStatus(id, "review")
       \/ RoomFor(id, "visualizationUrls") /\ addProjectVisualization(id, Url2)
       \/ RoomFor(id, "projectFiles") /\ addProjectFile(id, Url2)
       \/ \E p \in CrewPatches : updateCrew(id, p)
       \/ updateBankGuaranteeStatus(id, "released")

Next == Create \/ Read \/ Update \/ Tick

Spec == Init /\ [][Next]_vars
SpecRating == Init /\ [][NextRating]_vars
SpecDelivery == Init /\ [][NextDelivery]_vars
SpecBids == Init /\ [][NextBids]_vars
SpecViews == Init /\ [][NextViews]_vars
SpecCodec == Init /\ [][NextCodec]_vars
SpecTenders == Init /\ [][NextTenders]_vars
SpecProjects == Init /\ [][NextProjects]_vars

----------------------------------------------------------------------------
(* Calls in steps.  An async method runs to its next await, hands the      *)
(* request to the store and resumes when the store has answered; between   *)
(* two of its requests the requests of other calls may be served.  A call  *)
(* in flight is a record of calls: its name, its arguments, the row its    *)
(* SELECT read, the request it issues next (pc) and, once it has returned, *)
(* what it returned.                                                       *)

MaxCalls == 2      \* calls in flight or returned, in SpecAppend and SpecAccept

Pending == [k |-> "pending"]            \* the call has not returned yet

CallIds == 1..Len(calls)

(* const [project] = await db.select()...; if (!project) return undefined. *)
selectProject(op, id, url) ==
    /\ Len(calls) < MaxCalls
    /\ calls' = Append(calls,
                       IF Has(projects, id)
                       THEN [op |-> op, id |-> id, url |-> url, pc |-> "update",
                             project |-> Some(projects[id]), ret |-> Pending]
                       ELSE [op |-> op, id |-> id, url |-> url, pc |-> "done",
                             project |-> None, ret |-> Absent])
    /\ last' = Idle
    /\ UNCHANGED <<server, now, tables>>

(* parseArray and push on the row the call read, then UPDATE ... SET       *)
(* column = stringify(list), updatedAt = now ... RETURNING, and the        *)
(* decoded record.  When the row is gone the UPDATE returns no row and     *)
(* reading its column throws.                                              *)
updateProjectList(i, op, column) ==
    /\ calls[i].op = op
    /\ calls[i].pc = "update"
    /\ LET c == calls[i]
           current == Push(parseArray(Some(c.project[1][column])), c.url)
       IN IF current = None \/ ~Has(projects, c.id)
          THEN /\ calls' = [calls EXCEPT ![i].pc = "done", ![i].ret = Raised]
               /\ UNCHANGED tables
          ELSE /\ projects' = [projects EXCEPT ![c.id] =
                      SetColumns(@, [f \in {column, "updatedAt"} |->
                                       IF f = column THEN stringify(current)
                                       ELSE TimestampNow])]
               /\ calls' = [calls EXCEPT ![i].pc = "done",
                                         ![i].ret = Row(ProjectRecord(projects'[c.id]))]
               /\ UNCHANGED <<users, tenders, bids, reviews, listings,
                              messages, options, orders, estimates, crews,
                              guarantees>>
    /\ last' = Idle
    /\ UNCHANGED <<server, now>>

(* addProjectVisualization up to its first await, and from there on.       *)
addProjectVisualization_select(id, visualizationUrl) ==
    selectProject("addProjectVisualization", id, visualizationUrl)

addProjectVisualization_update(i) ==
    updateProjectList(i, "addProjectVisualization", "visualizationUrls")

(* addProjectFile up to its first await, and from there on.                *)
addProjectFile_select(id, fileUrl) == selectProject("addProjectFile", id, fileUrl)

addProjectFile_update(i) == updateProjectList(i, "addProjectFile", "projectFiles")

(* Design projects, then calls that add to their lists, served request by  *)
(* request.                                                                *)
NextAppend ==
    \/ \E p \in ProjectInputs :
          calls = <<>> /\ Len(projects) < MaxProjects /\ createDesignProject(p, "row")
    \/ \E id \in ProjectIds, u \in {Url1, Url2} : addProjectVisualization_select(id, u)
    \/ \E i \in CallIds : addProjectVisualization_update(i)
    \/ \E id \in ProjectIds, u \in {Url1, Url2} : addProjectFile_select(id, u)
    \/ \E i \in CallIds : addProjectFile_update(i)

SpecAppend == Init /\ [][NextAppend]_vars

(* acceptTenderBid up to its first await: const [bid] = await              *)
(* db.select()...; if (!bid) return undefined.                             *)
acceptTenderBid_select(bidId) ==
    /\ Len(calls) < MaxCalls
    /\ calls' = Append(calls,
                       IF Has(bids, bidId)
                       THEN [op |-> "acceptTenderBid", id |-> bidId, pc |-> "tender",
                             bid |-> Some(bids[bidId]), ret |-> Pending]
                       ELSE [op |-> "acceptTenderBid", id |-> bidId, pc |-> "done",
                             bid |-> None, ret |-> Absent])
    /\ last' = Idle
    /\ UNCHANGED <<server, now, tables>>

acceptTenderBid_updateTender_skipped(i) ==
    /\ calls[i].op = "acceptTenderBid"
    /\ calls[i].pc = "tender"
    /\ calls' = [calls EXCEPT ![i].pc = "bid"]
    /\ last' = Idle
    /\ UNCHANGED <<server, now, tables>>

(* await db.update(tenders).set({ status: 'in_progress' }).where(id =      *)
(* bid.tenderId), with the tenderId of the bid the call read.              *)
acceptTenderBid_updateTender(i) ==
    /\ calls[i].op = "acceptTenderBid"
    /\ calls[i].pc = "tender"
    /\ LET bid == calls[i].bid[1]
       IN tenders' = IF Has(tenders, bid.tenderId)
                     THEN [tenders EXCEPT ![bid.tenderId].status = "in_progress"]
                     ELSE tenders
    /\ calls' = [calls EXCEPT ![i].pc = "bid"]
    /\ last' = Idle
    /\ UNCHANGED <<server, now, users, bids, reviews, listings, messages,
                   options, orders, estimates, projects, crews, guarantees>>

(* const [updatedBid] = await db.update(tenderBids).set({ isAccepted: true *)
(* }).where(id = bidId).returning(); return updatedBid.                    *)
acceptTenderBid_updateBid(i) ==
    /\ calls[i].op = "acceptTenderBid"
    /\ calls[i].pc = "bid"
    /\ bids' = IF Has(bids, calls[i].id)
               THEN [bids EXCEPT ![calls[i].id].isAccepted = TRUE]
               ELSE bids
    /\ calls' = [calls EXCEPT ![i].pc = "done",
                              ![i].ret = IF Has(bids, calls[i].id)
                                         THEN Row(bids'[calls[i].id]) ELSE Absent]
    /\ last' = Idle
    /\ UNCHANGED <<server, now, users, tenders, reviews, listings, messages,
                   options, orders, estimates, projects, crews, guarantees>>

(* The request the call awaits is rejected, or the process stops while the *)
(* call awaits it: the call writes nothing more.  No transaction undoes    *)
(* what it wrote before.                                                   *)
acceptTenderBid_fails(i) ==
    /\ calls[i].op = "acceptTenderBid"
    /\ calls[i].pc \in {"tender", "bid"}
    /\ calls' = [calls EXCEPT ![i].pc = "failed", ![i].ret = Raised]
    /\ last' = Idle
    /\ UNCHANGED <<server, now, tables>>

(* Tenders and bids, then calls of acceptTenderBid only, served request by *)
(* request.                                                                *)
NextAccept ==
    \/ \E t \in {x \in TenderInputs : x.images = None} :
          calls = <<>> /\ Len(tenders) < MaxTenders /\ createTender(t, "row")
    \/ \E b \in BidInputs :
          calls = <<>> /\ Len(bids) < MaxBids /\ createTenderBid(b, "row")
    \/ \E id \in BidIds : acceptTenderBid_select(id)
    \/ \E i \in CallIds : acceptTenderBid_updateTender(i)
    \/ \E i \in CallIds : acceptTenderBid_updateBid(i)
    \/ \E i \in CallIds : acceptTenderBid_fails(i)

SpecAccept == Init /\ [][NextAccept]_vars

----------------------------------------------------------------------------
(* The server's startup code, an async function called once when the       *)
(* process starts.  It calls its collaborators one after the other, some   *)
(* with await and some without, then registers the routes, sets up the     *)
(* client assets and listens.                                              *)

MaxRequests == 2   \* requests that reach the process, in SpecBoot

Environments == {"development", "production"}

(* The schema initialization, the seven migration steps and the two        *)
(* seeding steps, in the order of the calls.                               *)
SetupSteps ==
    <<"initializeDatabase", "addCompletedProjectsColumn", "addUserFieldsAndGuarantees",
      "addAdminField", "addDocumentsField", "addModerationFields",
      "addBidStatusFields", "addSpecialistReviewFields", "seedDatabaseIfEmpty",
      "seedTopSpecialists">>

(* All the calls before server.listen: development sets up Vite, any other *)
(* environment serves the built assets.                                    *)
StartupSteps(env) ==
    SetupSteps \o <<"registerRoutes",
                    IF env = "development" THEN "setupVite" ELSE "serveStatic">>

Awaited_onlyMigrations(step) ==
    step \in {"addCompletedProjectsColumn", "addUserFieldsAndGuarantees",
              "addAdminField", "addDocumentsField"}

(* The calls written with await.                                           *)
Awaited(step) ==
    step \in {"addCompletedProjectsColumn", "addUserFieldsAndGuarantees",
              "addAdminField", "addDocumentsField", "seedTopSpecialists",
              "registerRoutes", "setupVite"}

(* The collaborators whose work goes on after the call has handed back a   *)
(* promise.  The others have done their work when the call returns.        *)
Asynchronous(step) ==
    step \in {"addCompletedProjectsColumn", "addUserFieldsAndGuarantees",
              "addAdminField", "addDocumentsField", "seedTopSpecialists",
              "registerRoutes", "setupVite"}

(* The process starts: the async function is called.                       *)
startServer(env) ==
    /\ calls = <<>>
    /\ server = Down
    /\ calls' = <<[op |-> "bootstrap", env |-> env, step |-> 1, state |-> "running",
                   started |-> {}]>>
    /\ last' = Idle
    /\ UNCHANGED <<server, now, tables>>

(* The startup code calls its next collaborator.  A synchronous one has    *)
(* done its work when the call returns; an asynchronous one is started,    *)
(* and the startup code waits for it when the call is written with await.  *)
bootstrapCalls(i) ==
    /\ calls[i].op = "bootstrap"
    /\ calls[i].state = "running"
    /\ calls[i].step <= Len(StartupSteps(calls[i].env))
    /\ LET step == StartupSteps(calls[i].env)[calls[i].step]
       IN IF ~Asynchronous(step)
          THEN /\ server' = [server EXCEPT !.done = Append(@, step)]
               /\ calls' = [calls EXCEPT ![i].step = @ + 1]
          ELSE /\ calls' = [calls EXCEPT ![i].started = @ \cup {step},
                                         ![i].state = IF Awaited(step) THEN "awaiting"
                                                      ELSE "running",
                                         ![i].step = IF Awaited(step) THEN @ ELSE @ + 1]
               /\ UNCHANGED server
    /\ last' = Idle
    /\ UNCHANGED <<now, tables>>

(* An asynchronous collaborator that was started finishes its work; the    *)
(* startup code that waits for it goes on.                                 *)
collaboratorCompletes(i) ==
    /\ calls[i].op = "bootstrap"
    /\ \E step \in calls[i].started :
          /\ server' = [server EXCEPT !.done = Append(@, step)]
          /\ calls' = [calls EXCEPT
                         ![i].started = @ \ {step},
                         ![i].state =
                             IF @ = "awaiting"
                                /\ step = StartupSteps(calls[i].env)[calls[i].step]
                             THEN "running" ELSE @,
                         ![i].step =
                             IF calls[i].state = "awaiting"
                                /\ step = StartupSteps(calls[i].env)[calls[i].step]
                             THEN @ + 1 ELSE @]
    /\ last' = Idle
    /\ UNCHANGED <<now, tables>>

(* A collaborator throws, or the promise awaited is rejected: the async    *)
(* function ends there, nothing catches.                                   *)
bootstrapFails(i) ==
    /\ calls[i].op = "bootstrap"
    /\ calls[i].state \in {"running", "awaiting"}
    /\ calls[i].step <= Len(StartupSteps(calls[i].env))
    /\ calls' = [calls EXCEPT ![i].state = "failed", ![i].started = {}]
    /\ last' = Idle
    /\ UNCHANGED <<server, now, tables>>

(* server.listen({ port, host, reusePort }, ...).                          *)
listen(i) ==
    /\ calls[i].op = "bootstrap"
    /\ calls[i].state = "running"
    /\ calls[i].step = Len(StartupSteps(calls[i].env)) + 1
    /\ server' = [server EXCEPT !.listening = TRUE]
    /\ calls' = [calls EXCEPT ![i].state = "returned"]
    /\ last' = Idle
    /\ UNCHANGED <<now, tables>>

(* A request reaches the process: a route serves it when the server        *)
(* listens, and the connection is refused when it does not.                *)
request ==
    /\ server.served + server.refused < MaxRequests
    /\ server' = IF server.listening THEN [server EXCEPT !.served = @ + 1]
                 ELSE [server EXCEPT !.refused = @ + 1]
    /\ last' = Idle
    /\ UNCHANGED <<calls, now, tables>>

NextBoot ==
    \/ \E env \in Environments : startServer(env)
    \/ \E i \in CallIds : bootstrapCalls(i)
    \/ \E i \in CallIds : collaboratorCompletes(i)
    \/ \E i \in CallIds : bootstrapFails(i)
    \/ \E i \in CallIds : listen(i)
    \/ request

SpecBoot == Init /\ [][NextBoot]_vars

----------------------------------------------------------------------------
(* createTestTenderAndBid, the script that fills in a tender, a specialist *)
(* and a bid.  It is an async function: each storage call is awaited, and  *)
(* other callers of the same database are served in between.  The call     *)
(* record keeps the script's constants tender, specialist, newSpecialist   *)
(* and bid, and what it has logged.                                        *)

TenderOwner == 17   \* userId of the script's tender and notification: the admin

(* The script is called; it first awaits initializeDatabase,               *)
(* addModerationFields and addBidStatusFields, which touch no row.         *)
createTestTenderAndBid_start ==
    /\ calls = <<>>
    /\ calls' = <<[op |-> "createTestTenderAndBid", pc |-> "createTender",
                   tender |-> None, specialist |-> None, newSpecialist |-> None,
                   bid |-> None, log |-> <<"Initializing">>]>>
    /\ last' = Idle
    /\ UNCHANGED <<server, now, tables>>

(* const tender = await simpleSqliteStorage.createTender({...}).           *)
createTestTenderAndBid_createTender(i) ==
    /\ calls[i].op = "createTestTenderAndBid"
    /\ calls[i].pc = "createTender"
    /\ LET row == [id |-> Len(tenders) + 1, userId |-> TenderOwner,
                   category |-> "construction", status |-> "open",
                   images |-> stringify(None), viewCount |-> 0,
                   createdAt |-> TimestampNow, updatedAt |-> TimestampNow]
       IN /\ tenders' = Append(tenders, row)
          /\ calls' = [calls EXCEPT ![i].tender = Some(TenderRecord(row)),
                                    ![i].pc = "getUser",
                                    ![i].log = Append(@, "tender")]
    /\ last' = Idle
    /\ UNCHANGED <<server, now, users, bids, reviews, listings, messages,
                   options, orders, estimates, projects, crews, guarantees>>

(* const specialist = await simpleSqliteStorage.getUser(1).                *)
createTestTenderAndBid_getUser(i) ==
    /\ calls[i].op = "createTestTenderAndBid"
    /\ calls[i].pc = "getUser"
    /\ calls' = [calls EXCEPT
                   ![i].specialist = IF Has(users, 1) THEN Some(UserFromRow(users[1]))
                                     ELSE None,
                   ![i].pc = IF Has(users, 1) THEN "createTenderBid" ELSE "createUser",
                   ![i].log = IF Has(users, 1) THEN Append(@, "specialist") ELSE @]
    /\ last' = Idle
    /\ UNCHANGED <<server, now, tables>>

(* if (!specialist): const newSpecialist = await                           *)
(* simpleSqliteStorage.createUser({..., userType: 'contractor'}).          *)
createTestTenderAndBid_createUser(i) ==
    /\ calls[i].op = "createTestTenderAndBid"
    /\ calls[i].pc = "createUser"
    /\ LET row == [id |-> Len(users) + 1, full_name |-> "specialist_builder",
                   user_type |-> "contractor", rating |-> 0,
                   created_at |-> TimestampNow, updated_at |-> TimestampNow]
       IN /\ users' = Append(users, row)
          /\ calls' = [calls EXCEPT ![i].newSpecialist = Some(UserFromRow(row)),
                                    ![i].pc = "createTenderBid",
                                    ![i].log = Append(@, "specialist")]
    /\ last' = Idle
    /\ UNCHANGED <<server, now, tenders, bids, reviews, listings, messages,
                   options, orders, estimates, projects, crews, guarantees>>

(* const specialistId = specialist?.id || 1.                               *)
specialistId(specialist) == IF specialist = None THEN 1 ELSE specialist[1].id

(* const bid = await simpleSqliteStorage.createTenderBid({ tenderId:       *)
(* tender.id, userId: specialistId, ..., status: 'pending' }).             *)
createTestTenderAndBid_createTenderBid(i) ==
    /\ calls[i].op = "createTestTenderAndBid"
    /\ calls[i].pc = "createTenderBid"
    /\ LET row == [id |-> Len(bids) + 1, tenderId |-> calls[i].tender[1].id,
                   userId |-> specialistId(calls[i].specialist),
                   status |-> "pending", isAccepted |-> FALSE,
                   createdAt |-> TimestampNow]
       IN /\ bids' = Append(bids, row)
          /\ calls' = [calls EXCEPT ![i].bid = Some(row),
                                    ![i].pc = "createNotification",
                                    ![i].log = Append(@, "bid")]
    /\ last' = Idle
    /\ UNCHANGED <<server, now, users, tenders, reviews, listings, messages,
                   options, orders, estimates, projects, crews, guarantees>>

(* await simpleSqliteStorage.createNotification({ userId: 17, ...,         *)
(* relatedId: tender.id, ... }): the model keeps no table of               *)
(* notifications, the call is logged.                                      *)
createTestTenderAndBid_createNotification(i) ==
    /\ calls[i].op = "createTestTenderAndBid"
    /\ calls[i].pc = "createNotification"
    /\ calls' = [calls EXCEPT ![i].pc = "done", ![i].log = Append(@, "notification")]
    /\ last' = Idle
    /\ UNCHANGED <<server, now, tables>>

(* A storage call rejects: catch (error) logs it and the script ends.      *)
createTestTenderAndBid_caught(i) ==
    /\ calls[i].op = "createTestTenderAndBid"
    /\ calls[i].pc \notin {"done", "caught"}
    /\ calls' = [calls EXCEPT ![i].pc = "caught"]
    /\ last' = Idle
    /\ UNCHANGED <<server, now, tables>>

(* The script, and around it the other callers of the same database, who   *)
(* create and read users.                                                  *)
NextScript ==
    \/ createTestTenderAndBid_start
    \/ \E i \in CallIds : createTestTenderAndBid_createTender(i)
    \/ \E i \in CallIds : createTestTenderAndBid_getUser(i)
    \/ \E i \in CallIds : createTestTenderAndBid_createUser(i)
    \/ \E i \in CallIds : createTestTenderAndBid_createTenderBid(i)
    \/ \E i \in CallIds : createTestTenderAndBid_createNotification(i)
    \/ \E i \in CallIds : createTestTenderAndBid_caught(i)
    \/ \E u \in UserInputs, a \in RawAnswers :
          Len(users) < MaxUsers /\ createUser(u, a)
    \/ \E id \in UserIds : getUser(id)

SpecScript == Init /\ [][NextScript]_vars

----------------------------------------------------------------------------
(* Claims about bid acceptance, under SpecBids.                            *)

TenderOfBid(bidId) == bids[bidId].tenderId

\* C1: after acceptTenderBid(bidId) on an existing bid, the bid's isAccepted
\* flag is true and the tender the bid refers to has status "in_progress",
\* whatever both were before the call.
C1_AcceptSetsFlagAndStatus ==
    (last.op = "acceptTenderBid" /\ Has(bids, last.id)) =>
        /\ bids[last.id].isAccepted
        /\ Has(tenders, TenderOfBid(last.id)) =>
               tenders[TenderOfBid(last.id)].status = "in_progress"

C1_Witness ==
    /\ last.op = "acceptTenderBid"
    /\ Has(bids, last.id)
    /\ ~last.wasAccepted
    /\ last.oldStatus = Some("closed")
    /\ tenders[TenderOfBid(last.id)].status = "in_progress"
    /\ bids[last.id].isAccepted

\* C2: every tender has at most one bid whose isAccepted flag is true.
C2_AtMostOneAcceptedBid ==
    \A t \in DOMAIN tenders :
        Cardinality({b \in DOMAIN bids :
                        bids[b].tenderId = t /\ bids[b].isAccepted}) <= 1

\* C8: acceptTenderBid(bidId) on a bid that is already accepted leaves the
\* flag true and writes the tender's status again: the status is
\* "in_progress" after the call even when it had been changed in between.
C8_SecondAcceptReappliesStatus ==
    (last.op = "acceptTenderBid" /\ last.wasAccepted) =>
        /\ bids[last.id].isAccepted
        /\ last.oldStatus # None =>
               tenders[TenderOfBid(last.id)].status = "in_progress"

C8_Witness ==
    /\ last.op = "acceptTenderBid"
    /\ last.wasAccepted
    /\ last.oldStatus = Some("closed")
    /\ tenders[TenderOfBid(last.id)].status = "in_progress"
    /\ bids[last.id].isAccepted

----------------------------------------------------------------------------
(* Claims about the stamp updatedAt, under Spec.                           *)

StampColumns == {"updatedAt", "updated_at"}
StampOf(row) == IF "updatedAt" \in DOMAIN row THEN row.updatedAt ELSE row.updated_at

GenericUpdates ==
    {"updateUser", "updateTender", "updateMarketplaceListing", "updateEstimate",
     "updateDesignProject", "updateCrew"}
TargetedUpdates ==
    {"updateDeliveryOrderStatus", "updateDeliveryOrderTracking",
     "updateEstimateStatus", "updateDesignProjectStatus", "updateBankGuaranteeStatus"}

(* The stored row that the last call addressed.                            *)
StoredRow ==
    CASE last.op = "updateUser" -> users[last.id]
      [] last.op = "updateTender" -> tenders[last.id]
      [] last.op = "updateMarketplaceListing" -> listings[last.id]
      [] last.op \in {"updateEstimate", "updateEstimateStatus"} -> estimates[last.id]
      [] last.op \in {"updateDesignProject", "updateDesignProjectStatus"} ->
            projects[last.id]
      [] last.op = "updateCrew" -> crews[last.id]
      [] last.op \in {"updateDeliveryOrderStatus", "updateDeliveryOrderTracking"} ->
            orders[last.id]
      [] last.op = "updateBankGuaranteeStatus" -> guarantees[last.id]

\* C3: an update of an existing row with a patch that names a field and does
\* not name updatedAt leaves the columns outside the patch unchanged and
\* stamps updatedAt with the current instant, not below the stamp stored
\* before.  (The claim asks for a strictly greater stamp and admits the
\* empty patch; this is the part of it that does not depend on the clock's
\* resolution.)
C3_UpdateStampsAndKeepsTheRest ==
    ( /\ last.op \in GenericUpdates \cup TargetedUpdates
      /\ last.old # None
      /\ last.cols # {}
      /\ last.cols \cap StampColumns = {} ) =>
        /\ \A c \in DOMAIN last.old[1] \ (last.cols \cup StampColumns) :
               StoredRow[c] = last.old[1][c]
        /\ StampOf(StoredRow) = now
        /\ StampOf(StoredRow) >= StampOf(last.old[1])

\* C4: a generic update whose patch carries updatedAt stores the current
\* instant as the row's stamp, never the value the caller supplied.
C4_CallerStampIsDiscarded ==
    ( /\ last.op \in GenericUpdates
      /\ last.old # None
      /\ "updatedAt" \in DOMAIN last.patch ) =>
        /\ StampOf(StoredRow) = now
        /\ StampOf(StoredRow) # last.patch.updatedAt

----------------------------------------------------------------------------
(* Claims about the user rating, under SpecRating.                         *)

\* C5: updateUserRating(userId) with no review addressed to userId returns 0
\* and leaves the user row as it was; with at least one review, and the user
\* row present, it returns the integer nearest to the mean of the ratings
\* addressed to userId (a mean half way between two integers goes up, as
\* Math.round does), and that value is the user's stored rating.
C5_RatingIsRoundedMean ==
    last.op = "updateUserRating" =>
        LET mine == {i \in DOMAIN reviews : reviews[i].recipientId = last.id}
            count == Cardinality(mine)
            total == SumRatings(ReviewsOf(last.id))
        IN /\ count = 0 =>
                /\ last.ret = Val(0)
                /\ last.old = (IF Has(users, last.id) THEN Some(users[last.id])
                               ELSE None)
           /\ (count > 0 /\ Has(users, last.id)) =>
                /\ last.ret.k = "val"
                /\ 2 * count * last.ret.v - count <= 2 * total
                /\ 2 * total < 2 * count * last.ret.v + count
                /\ users[last.id].rating = last.ret.v

C5_Witness ==
    /\ last.op = "updateUserRating"
    /\ Has(users, last.id)
    /\ Len(ReviewsOf(last.id)) = 2
    /\ SumRatings(ReviewsOf(last.id)) = 7
    /\ last.ret = Val(4)
    /\ users[last.id].rating = 4

----------------------------------------------------------------------------
(* Claims about delivery options, under SpecDelivery.                      *)

OptionReads == {"getDeliveryOptions", "getDeliveryOption"}

C6_ReadsShowTheTable ==
    /\ last.op = "getDeliveryOptions" =>
          /\ \A i \in DOMAIN last.ret.v :
                 /\ last.ret.v[i].isActive
                 /\ Has(options, last.ret.v[i].id)
                 /\ options[last.ret.v[i].id] = last.ret.v[i]
          /\ \A id \in DOMAIN options :
                 options[id].isActive => \E i \in DOMAIN last.ret.v : last.ret.v[i].id = id
    /\ (last.op = "getDeliveryOption" /\ Has(options, last.id)) =>
          last.ret = Row(options[last.id])

C6_DeleteDeactivates ==
    (last'.op = "deleteDeliveryOption" /\ Has(options, last'.id)) =>
        /\ Len(options') = Len(options)
        /\ options' = [options EXCEPT ![last'.id].isActive = FALSE]

C6_StaysDeactivated ==
    \A id \in DOMAIN options :
        (~options[id].isActive /\ last'.op \in OptionReads \cup {"deleteDeliveryOption"}) =>
            /\ Has(options', id)
            /\ options'[id] = options[id]

\* C6: deleteDeliveryOption(id) keeps the row and only sets isActive to
\* false; the active-only listing then leaves the option out and the read by
\* id hands it back as stored; reads and further deletes leave a deactivated
\* option as it is.
C6_DeleteIsSoft ==
    []C6_ReadsShowTheTable /\ [][C6_DeleteDeactivates /\ C6_StaysDeactivated]_vars

C6_Witness ==
    /\ last.op = "deleteDeliveryOption"
    /\ last.old # None
    /\ last.old[1].isActive
    /\ last.old[1].name = "post"
    /\ options[last.id] = [last.old[1] EXCEPT !.isActive = FALSE]

----------------------------------------------------------------------------
(* Claims about absent rows and about creation, under Spec.                *)

ByIdReads ==
    {"getUser", "getTender", "getTenderBid", "getMarketplaceListing",
     "getDeliveryOption", "getDeliveryOrder", "getEstimate", "getDesignProject",
     "getCrew", "getBankGuarantee"}
ByIdUpdates ==
    GenericUpdates \cup TargetedUpdates
    \cup {"updateDeliveryOption", "acceptTenderBid", "markMessageAsRead",
          "addProjectVisualization", "addProjectFile"}

\* C7: a read by id or an update by id that is given an id with no row
\* returns the absent marker, throws nothing and changes no table.
C7_MissingIdReturnsAbsent ==
    [][(last'.op \in ByIdReads \cup ByIdUpdates /\ last'.old = None) =>
          (last'.ret = Absent /\ UNCHANGED tables)]_vars

CreatesWithRead ==
    {"createUser", "createTender", "createTenderBid", "createMarketplaceListing",
     "createDeliveryOption", "createDeliveryOrder", "createEstimate",
     "createDesignProject", "createCrew", "createBankGuarantee"}
Creates == CreatesWithRead \cup {"createReview", "createMessage"}

(* What the read by id of the entity just created hands back.              *)
ReadAfterCreate(id) ==
    CASE last.op = "createUser" -> UserById(id)
      [] last.op = "createTender" -> TenderById(id)
      [] last.op = "createTenderBid" -> TenderBidById(id)
      [] last.op = "createMarketplaceListing" -> ListingById(id)
      [] last.op = "createDeliveryOption" -> DeliveryOptionById(id)
      [] last.op = "createDeliveryOrder" -> DeliveryOrderById(id)
      [] last.op = "createEstimate" -> EstimateById(id)
      [] last.op = "createDesignProject" -> DesignProjectById(id)
      [] last.op = "createCrew" -> CrewById(id)
      [] last.op = "createBankGuarantee" -> BankGuaranteeById(id)

\* C9: the record a create returns equals the record the read by id returns
\* right after it, field by field, and carries every supplied field with the
\* supplied value.
C9_CreateThenReadAgree ==
    (last.op \in CreatesWithRead /\ last.answer = "row") =>
        /\ last.ret = ReadAfterCreate(last.ret.v.id)
        /\ \A f \in DOMAIN last.given :
               f \in DOMAIN last.ret.v /\ last.ret.v[f] = last.given[f]

\* C10: a create whose insert the store accepted and whose new row cannot be
\* read back (no generated id, or no row) throws; it never returns.
C10_LostRowIsRaised ==
    (last.op \in Creates /\ last.answer # "row") => last.ret = Raised

----------------------------------------------------------------------------
(* Claims about the view counters, under SpecViews.                        *)

ViewIncrements == {"incrementTenderViews", "incrementListingViews"}

(* What one call adds to the counter of the row with this id of a table.   *)
Added(op, id) == IF last'.op = op /\ last'.id = id THEN 1 ELSE 0

\* C11: every call, among any sequence of calls, leaves each existing row's
\* viewCount at its value before the call plus one if the call is an
\* increment of that row and plus nothing otherwise, so that n increments of
\* a row add exactly n; and an increment changes no other field of any row.
C11_IncrementsAddUp ==
    [][ /\ \A id \in DOMAIN tenders :
             /\ Has(tenders', id)
             /\ tenders'[id].viewCount =
                    tenders[id].viewCount + Added("incrementTenderViews", id)
        /\ \A id \in DOMAIN listings :
             /\ Has(listings', id)
             /\ listings'[id].viewCount =
                    listings[id].viewCount + Added("incrementListingViews", id)
        /\ last'.op \in ViewIncrements =>
             /\ \A id \in DOMAIN tenders :
                    [tenders'[id] EXCEPT !.viewCount = 0]
                        = [tenders[id] EXCEPT !.viewCount = 0]
             /\ \A id \in DOMAIN listings :
                    [listings'[id] EXCEPT !.viewCount = 0]
                        = [listings[id] EXCEPT !.viewCount = 0]
             /\ Len(tenders') = Len(tenders) /\ Len(listings') = Len(listings)
      ]_vars

C11_Witness ==
    /\ last.op = "incrementTenderViews"
    /\ Has(tenders, last.id)
    /\ tenders[last.id].viewCount = 2
    /\ tenders[last.id].status = "closed"
    /\ Has(listings, 1) /\ listings[1].viewCount = 1

----------------------------------------------------------------------------
(* Claims about the JSON column codec, under SpecCodec.                    *)

\* C12: a list of strings that is encoded by stringify and decoded by
\* parseArray comes back as the same list, same order and same duplicates,
\* the empty list included; the encoding of an absent value decodes to the
\* empty list.
C12_DecodeOfEncodeIsTheList ==
    last.op = "decode" =>
        IF last.data = None THEN last.ret = JArr(<<>>)
        ELSE last.ret = last.data[1]

C12_Witness ==
    /\ last.op = "decode"
    /\ last.data = Some(JArr(<<JStr(<<DQ>>), JStr(<<DQ>>)>>))
    /\ last.json = Some(<<"[", DQ, BS, DQ, DQ, ",", DQ, BS, DQ, DQ, "]">>)
    /\ last.ret.k = "arr"
    /\ Len(last.ret.v) = 2
    /\ last.ret.v[1] = JStr(<<DQ>>) /\ last.ret.v[2] = last.ret.v[1]

(* The text contains "http" or "www".                                      *)
Occurs(word, text) ==
    \E i \in 1..(Len(text) - Len(word) + 1) :
        \A j \in 1..Len(word) : text[i + j - 1] = word[j]
HasHttpOrWww(text) ==
    Occurs(<<"h", "t", "t", "p">>, text) \/ Occurs(<<"w", "w", "w">>, text)

(* The text without the blanks before and after it.                        *)
Unpadded(text) ==
    LET inked == {i \in 1..Len(text) : text[i] # " "}
    IN IF inked = {} THEN <<>>
       ELSE SubSeq(text, CHOOSE i \in inked : \A j \in inked : i <= j,
                         CHOOSE i \in inked : \A j \in inked : i >= j)

(* The text is JSON for an array.                                          *)
IsJsonArray(text) == JsonParse(text) # None /\ JsonParse(text)[1].k = "arr"

\* C13: parseArray of a stored text that is not a JSON array and contains
\* neither "http" nor "www" hands back the empty list.
C13_OtherTextDecodesToEmpty ==
    ( /\ last.op = "parseArray"
      /\ last.json # None
      /\ ~IsJsonArray(last.json[1])
      /\ ~HasHttpOrWww(last.json[1]) ) =>
        last.ret = JArr(<<>>)

\* C14 as stated: parseArray of a stored text that contains "http" or "www"
\* and does not begin with "[" hands back the list of one element, the
\* stored text.
C14_UrlTextIsWrapped ==
    ( /\ last.op = "parseArray"
      /\ last.json # None
      /\ HasHttpOrWww(last.json[1])
      /\ last.json[1][1] # "[" ) =>
        last.ret = JArr(<<JStr(last.json[1])>>)

\* C14 as amended: parseArray of a stored text that, without the blanks
\* around it, contains "http" or "www" and does not begin with "[" hands back
\* the list of one element, the stored text without the blanks around it.
C14_TrimmedUrlTextIsWrapped ==
    ( /\ last.op = "parseArray"
      /\ last.json # None
      /\ HasHttpOrWww(last.json[1])
      /\ Unpadded(last.json[1])[1] # "[" ) =>
        last.ret = JArr(<<JStr(Unpadded(last.json[1]))>>)

C14_Witness ==
    /\ last.op = "parseArray"
    /\ last.json = Some(<<" ", "w", "w", "w", " ">>)
    /\ last.ret = JArr(<<JStr(<<"w", "w", "w">>)>>)

----------------------------------------------------------------------------
(* Claims about the lists of tenders, under SpecTenders.                   *)

(* The criteria that a filter object supplies: the keys it carries with a  *)
(* value other than 0, the empty text or the empty list.                   *)
SuppliedCriteria(filters) ==
    IF filters = None THEN {}
    ELSE {key \in DOMAIN filters[1] :
            CASE key = "userId" -> filters[1][key] # 0
              [] key = "status" -> filters[1][key] # ""
              [] OTHER -> Len(filters[1][key]) > 0}

ExactCriteria == {"category", "status", "userId", "personType"}

Folded(text) ==
    [i \in DOMAIN text |->
        IF text[i] = "A" THEN "a" ELSE IF text[i] = "B" THEN "b" ELSE text[i]]

(* The term occurs in the text, letters compared as the store's LIKE does. *)
Contains(text, term) == Occurs(Folded(term), Folded(text))

(* The stored tender satisfies every supplied criterion.                   *)
Satisfies(tender, filters) ==
    LET supplied == SuppliedCriteria(filters)
    IN /\ \A key \in supplied \cap ExactCriteria : tender[key] = filters[1][key]
       /\ "location" \in supplied => Contains(tender.location, filters[1].location)
       /\ "searchTerm" \in supplied =>
             \/ Contains(tender.title, filters[1].searchTerm)
             \/ Contains(tender.description, filters[1].searchTerm)
       /\ "requiredProfessions" \in supplied =>
             /\ tender.requiredProfessions.k = "str"
             /\ \E i \in DOMAIN filters[1].requiredProfessions :
                    Contains(tender.requiredProfessions.v,
                             filters[1].requiredProfessions[i])

(* The ids of the records of a returned list, in the order returned.       *)
IdsOf(records) == [i \in DOMAIN records |-> records[i].id]

(* The ids of the stored tenders, in the order stored, that pass a test.   *)
RECURSIVE StoredIds(_, _)
StoredIds(passing, n) ==
    IF n = 0 THEN <<>>
    ELSE StoredIds(passing, n - 1) \o (IF n \in passing THEN <<n>> ELSE <<>>)

DecodedProfessions(tender) ==
    LET decoded == parseArray(ColumnText(tender.requiredProfessions))
    IN IF decoded.k = "arr"
       THEN {decoded.v[i].v : i \in {j \in DOMAIN decoded.v : decoded.v[j].k = "str"}}
       ELSE {}

\* C16: getTendersByRequiredProfession(p) returns the stored tenders whose
\* decoded requiredProfessions list has an element equal to p, and no other.
C16_ProfessionMatchesAnElement ==
    last.op = "getTendersByRequiredProfession" =>
        /\ last.ret.k = "rows"
        /\ IdsOf(last.ret.v) =
              StoredIds({id \in DOMAIN tenders :
                            last.profession \in DecodedProfessions(tenders[id])},
                        Len(tenders))

TenderLists == {"getTenders", "getTendersByPersonType", "getTendersByRequiredProfession"}

\* C17: every tender in the list that getTenders, getTendersByPersonType or
\* getTendersByRequiredProfession returns has images and requiredProfessions
\* as decoded lists, never as the stored text.
C17_ListsAreDecoded ==
    (last.op \in TenderLists /\ last.ret.k = "rows") =>
        \A i \in DOMAIN last.ret.v :
            /\ last.ret.v[i].images.k = "arr"
            /\ last.ret.v[i].requiredProfessions.k = "arr"

----------------------------------------------------------------------------
(* Claims about the lists of a design project, under SpecProjects.         *)

(* The column a call appends to, and the other list column.                *)
OwnColumn == IF last.op = "addProjectVisualization" THEN "visualizationUrls"
             ELSE "projectFiles"
OtherColumn == IF last.op = "addProjectVisualization" THEN "projectFiles"
               ELSE "visualizationUrls"

Decoded(text) == parseArray(Some(text))

\* C18: on an existing design project, addProjectVisualization(id, u) leaves
\* visualizationUrls as the list stored before with u added as its last
\* element, and projectFiles as it was; addProjectFile(id, f) does the same
\* with the two columns exchanged.  The record handed back shows both lists.
C18_AddAppendsToItsOwnList ==
    (last.op \in {"addProjectVisualization", "addProjectFile"} /\ last.old # None) =>
        /\ Decoded(projects[last.id][OwnColumn]) =
              JArr(Append(Decoded(last.old[1][OwnColumn]).v, JStr(last.url)))
        /\ projects[last.id][OtherColumn] = last.old[1][OtherColumn]
        /\ last.ret.k = "row"
        /\ last.ret.v[OwnColumn] = Decoded(projects[last.id][OwnColumn])
        /\ last.ret.v[OtherColumn] = Decoded(last.old[1][OtherColumn])

C18_Witness ==
    /\ last.op = "addProjectVisualization"
    /\ last.old # None
    /\ Decoded(last.old[1].visualizationUrls) = JArr(<<JStr(Url1)>>)
    /\ Decoded(projects[last.id].visualizationUrls) = JArr(<<JStr(Url1), JStr(Url2)>>)
    /\ Decoded(projects[last.id].projectFiles) = JArr(<<JStr(Url1)>>)

----------------------------------------------------------------------------
(* The calls on one list of one project that have returned a record, and   *)
(* how often a value stands in a decoded list.                             *)
ColumnOf(op) == IF op = "addProjectVisualization" THEN "visualizationUrls"
                ELSE "projectFiles"

Returned(i) == calls[i].pc = "done" /\ calls[i].ret.k = "row"

Times(list, url) ==
    IF list.k = "arr"
    THEN Cardinality({n \in DOMAIN list.v : list.v[n] = JStr(url)})
    ELSE 0

\* C19: when two addProjectVisualization calls, or two addProjectFile calls,
\* on the same design project have both returned, however the store served
\* their reads and writes, the stored list holds the value of each of them
\* (twice when both added the same value).
C19_BothAppendedValuesStored ==
    \A i, j \in CallIds :
        (i < j /\ Returned(i) /\ Returned(j) /\ calls[i].op = calls[j].op
               /\ calls[i].id = calls[j].id) =>
            LET stored == Decoded(projects[calls[i].id][ColumnOf(calls[i].op)])
            IN \A m \in {i, j} :
                  Times(stored, calls[m].url)
                      >= Cardinality({n \in {i, j} : calls[n].url = calls[m].url})

\* C20: while only acceptTenderBid calls run on tenders and bids none of
\* which is accepted at the start, served request by request in any order
\* and with any of them failing between two requests, every accepted bid
\* whose tender is stored has a tender with status "in_progress"; a failed
\* call leaves at most a tender "in_progress" whose bid is not accepted.
C20_AcceptedBidHasTenderInProgress ==
    \A b \in DOMAIN bids :
        (bids[b].isAccepted /\ Has(tenders, bids[b].tenderId)) =>
            tenders[bids[b].tenderId].status = "in_progress"

C20_Witness ==
    /\ Len(calls) = 1
    /\ calls[1].pc = "failed"
    /\ Has(tenders, calls[1].bid[1].tenderId)
    /\ tenders[calls[1].bid[1].tenderId].status = "in_progress"
    /\ \A b \in DOMAIN bids : ~bids[b].isAccepted

\* C21: updateUserRating(userId), called when reviews addressed to userId
\* are stored and no user row has that id, returns a number and does not
\* raise.
C21_MissingUserRowIsNoFailure ==
    (last.op = "updateUserRating" /\ ReviewsOf(last.id) # <<>>
                                  /\ ~Has(users, last.id)) =>
        last.ret.k = "val"

\* C22: whatever parseArray is given, an absent value or any text, what it
\* hands back is a list.
C22_ParseArrayAnswersAList ==
    last.op = "parseArray" => last.ret.k = "arr"

====
